---------------------------- MODULE Spec2Model ----------------------------
(***************************************************************************)
(* State-machine model of the SUV plant simulator core:                    *)
(*   - app/services/planning.py      (plan run, allocator, preemption)     *)
(*   - app/services/simulation.py    (tick, start/stop)                    *)
(*   - app/services/purchase_order.py (delivery, replenishment sweep)      *)
(*   - app/services/inventory.py     (in-memory ledger)                    *)
(*   - app/api/scenarios.py, app/agents/supply_chain_agent.py (PO edits)   *)
(*                                                                         *)
(* The persistent store is modelled by its committed rows; a handler that  *)
(* runs in one session is one action, and a handler that fails before its  *)
(* commit leaves the rows untouched while the module-level dictionaries    *)
(* (inventory_state, line_state) keep what was written to them.            *)
(* The core is taken at the level of its public operations: plan(),        *)
(* tick(), start/stop, the replenishment sweep and the PO edits can be     *)
(* called in any order on the seeded store.                                *)
(***************************************************************************)
EXTENDS Integers, Sequences, FiniteSets, TLC

(***************************************************************************)
(* Bounds of the model                                                     *)
(***************************************************************************)
MaxOrders == 3
MaxQty == 4
MaxDay == 1
MaxTicks == 1
MaxProd == 5
MaxClock == 2
MaxTime == 3
MaxErrors == 1

(***************************************************************************)
(* Master data (seed_data.py shapes, scaled down).  oee_pct is kept as an  *)
(* integer percentage, so capacities are carried in hundredths of a unit.  *)
(***************************************************************************)
Products == {"PA", "PB", "PC"}

\* select(Line): rows in primary-key order
LineSeq == <<"LA1", "LA2", "LB1">>

Lines == {LineSeq[i] : i \in 1..Len(LineSeq)}

LineProduct == [LA1 |-> "PA", LA2 |-> "PA", LB1 |-> "PB"]

\* seed_data: Line.daily_capacity and Line.oee_pct (in percent) of the seeded lines
SeedLines ==
  [LA1 |-> [daily_capacity |-> 4, oee_pct |-> 50],
   LA2 |-> [daily_capacity |-> 3, oee_pct |-> 50],
   LB1 |-> [daily_capacity |-> 2, oee_pct |-> 100]]

Materials == {"M1", "M2", "M3"}

\* select(BOMItem): rows in primary-key order, one row per (product, material).
\* PC has no line; its material M3 has no inventory master row.
BomSeq == << [product_id |-> "PA", material_id |-> "M1", quantity_per_unit |-> 2],
             [product_id |-> "PB", material_id |-> "M1", quantity_per_unit |-> 1],
             [product_id |-> "PB", material_id |-> "M2", quantity_per_unit |-> 1],
             [product_id |-> "PC", material_id |-> "M3", quantity_per_unit |-> 1] >>

\* InventoryItem.current_stock (never written after seeding); M3 has no row
SeedStock == [M1 |-> 5, M2 |-> 1]

InvMaterials == DOMAIN SeedStock

\* Supplier.lead_time_days of InventoryItem.supplier_id
LeadTime == [M1 |-> 2, M2 |-> 1]

\* the call sites of plan() that run in threads of their own, and the
\* callers that hold PurchaseOrder writes in a session of their own: the two
\* callers of the replenishment sweep and the chip-delay scenario
PlanCallers == {"trigger_replan", "planning_agent"}

SweepCallers == {"tick", "supply_chain_agent", "chip_delay"}

\* a caller with no pass or session in flight
NoSession == [open |-> FALSE]

\* no function is being called on its own
NoCall == [fn |-> "none"]

\* the asyncio tasks that can run simulation_loop at the same time
LoopTasks == {1, 2}

\* scenarios.py 165 / simulation.py 34: the materials treated as semiconductors
SemiconductorIds == {"M1"}

\* Order rows written by seed_master_data: one order per product with lines
SeedOrders ==
  << [product_id |-> "PA", quantity |-> 2, start_date |-> 0, dispatch_date |-> 1,
      status |-> "OPEN", priority |-> 5, is_spike |-> FALSE],
     [product_id |-> "PB", quantity |-> 2, start_date |-> 0, dispatch_date |-> 1,
      status |-> "OPEN", priority |-> 5, is_spike |-> FALSE] >>

Unbounded == 1000000000

\* PlanItem timestamps are carried in ticks of 1/TicksPerDay day
TicksPerDay == 6

\* units_completed (a float) is carried in 1/UnitScale of a unit
UnitScale == 2

\* agent_runner.MAX_LOG_SIZE
MAX_LOG_SIZE == 100

(***************************************************************************)
(* Generic helpers                                                         *)
(***************************************************************************)
Min2(a, b) == IF a <= b THEN a ELSE b

Max2(a, b) == IF a >= b THEN a ELSE b

SetMax(S) == CHOOSE x \in S : \A y \in S : y <= x

\* sum of allocated_qty over a set of OrderAllocation rows
RECURSIVE SumQty(_)
SumQty(S) ==
  IF S = {} THEN 0
  ELSE LET x == CHOOSE y \in S : TRUE IN x.allocated_qty + SumQty(S \ {x})

(***************************************************************************)
(* State                                                                   *)
(***************************************************************************)
VARIABLES
  orders,     \* Order rows, in insertion order; order_id = index
  runs,       \* PlanRun rows (all scenario "BASELINE"); run_id = creation stamp
  profiles,   \* LineShiftProfile rows as <<run_id, line_id>>
  plans,      \* ProductPlan rows as <<run_id, order_id>>  (plan_id = PLAN-run-order)
  items,      \* PlanItem rows
  allocs,     \* OrderAllocation rows
  pos,        \* PurchaseOrder rows; po_id = PO-<material_id>-<order_date>
  today,      \* datetime.utcnow().date(), as a day number
  inventory_state,                \* inventory.inventory_state (the ledger)
  initial_inventory_by_material,  \* inventory.initial_inventory_by_material
  bom_loaded,                     \* inventory.bom_by_product has been loaded
  line_state,                     \* simulation.line_state
  simulation_running,             \* simulation.simulation_running
  ticks,      \* number of ticks executed so far
  credits,    \* history: how often each PO's quantity was added to the ledger
  plan_completed,  \* history: PLAN_COMPLETED rows logged since the last start,
                   \* counted up to MaxTicks + 1
  clock,      \* datetime.utcnow() in seconds, the stamp of a new PlanRun
  plan_session,   \* per caller: the run a plan() pass in flight has selected
  sweep_session,  \* per caller: the PurchaseOrder writes of its open session
  events,     \* EventLog rows as <<event_type, order_id>>, the typed planning events
  line_rows,  \* Line rows: daily_capacity and oee_pct (percent) per line_id
  DBStock,    \* InventoryItem.current_stock per material_id
  loops,      \* per task: where its simulation_loop stands ("none": no such task)
  write_enabled,    \* AgentConfig.WRITE_ENABLED
  pending_actions,  \* AgentPendingAction rows
  decision_log,     \* agent_runner._decision_log, oldest entry first
  call,       \* a function called on its own: its name, arguments and result
  lastOp      \* the last operation that changed anything, by name where a
              \* property speaks of it and "other" elsewhere

planVars == <<orders, runs, profiles, plans, items, allocs, events>>

simVars == <<pos, today, inventory_state, initial_inventory_by_material, bom_loaded,
             line_state, simulation_running, ticks, credits, plan_completed, loops>>

concVars == <<clock, plan_session, sweep_session>>

cfgVars == <<line_rows, DBStock, write_enabled, pending_actions, decision_log>>

vars == <<planVars, simVars, concVars, cfgVars, call, lastOp>>

\* Line.daily_capacity and Line.oee_pct as the allocator and the simulator read them
DailyCapacity == [l \in Lines |-> line_rows[l].daily_capacity]

OeePct == [l \in Lines |-> line_rows[l].oee_pct]

(***************************************************************************)
(* planning.py : plan run, occupancy, already-allocated orders             *)
(***************************************************************************)
\* get_or_create_plan_run: latest BASELINE run, else a new one stamped `stamp`
get_or_create_plan_run(rs, stamp) ==
  IF rs # {} THEN [run_id |-> SetMax(rs), is_new |-> FALSE]
  ELSE [run_id |-> stamp, is_new |-> TRUE]

\* get_line_occupancy: PlanItems joined to the ProductPlans of the run, per line
get_line_occupancy(its, pls, run_id) ==
  [l \in Lines |->
     {<<it.start_ts, it.end_ts, it.item_id>> :
        it \in {x \in its : x.line_id = l /\ x.run_id = run_id
                            /\ <<x.run_id, x.order_id>> \in pls}}]

\* a booking that goes into the first gap after the desired start
get_line_available_start_GapFill(line_occupancy, desired_start) ==
  IF line_occupancy = {} THEN desired_start
  ELSE LET ends == {occ[2] : occ \in line_occupancy}
           first_end == CHOOSE e \in ends : \A x \in ends : e <= x
       IN IF desired_start >= first_end THEN desired_start ELSE first_end

\* a booking that ignores what the line already holds
get_line_available_start_Desired(line_occupancy, desired_start) == desired_start

\* get_line_available_start: append after the latest end, never fill a gap
get_line_available_start(line_occupancy, desired_start) ==
  IF line_occupancy = {} THEN desired_start
  ELSE LET latest_end == SetMax({occ[2] : occ \in line_occupancy})
       IN IF desired_start >= latest_end THEN desired_start ELSE latest_end

\* get_already_allocated_orders: orders whose allocations in the run cover them
get_already_allocated_orders(ords, als, run_id) ==
  {o \in {a.order_id : a \in {x \in als : x.run_id = run_id}} :
     /\ o \in DOMAIN ords
     /\ SumQty({a \in als : a.run_id = run_id /\ a.order_id = o}) >= ords[o].quantity}

(***************************************************************************)
(* planning.py : spike preemption and resume                               *)
(***************************************************************************)
\* body of the loop over orders_to_hold (planning.py 135-164)
\* a hold that deletes the allocations and the ProductPlan and leaves the
\* PlanItems
HoldOrder_KeepItems(st, run_id, oid) ==
  LET mine == {a \in st.allocs : a.run_id = run_id /\ a.order_id = oid}
  IN [st EXCEPT !.allocs = st.allocs \ mine,
                !.plans = st.plans \ {<<run_id, oid>>},
                !.orders = [st.orders EXCEPT ![oid].status = "ON_HOLD"]]

HoldOrder(st, run_id, oid) ==
  LET mine == {a \in st.allocs : a.run_id = run_id /\ a.order_id = oid}
      ids == {a.plan_item_id : a \in mine}
  IN [st EXCEPT !.allocs = st.allocs \ mine,
                !.items = {it \in st.items : it.item_id \notin ids},
                !.plans = st.plans \ {<<run_id, oid>>},
                !.orders = [st.orders EXCEPT ![oid].status = "ON_HOLD"]]

RECURSIVE HoldAll(_, _, _)
HoldAll(st, run_id, S) ==
  IF S = {} THEN st
  ELSE LET o == CHOOSE x \in S : TRUE
       IN HoldAll(HoldOrder(st, run_id, o), run_id, S \ {o})

\* a preemption that holds the product's regular orders whatever their status
handle_spike_preemption_AnyStatus(st, run_id, spike_id) ==
  LET orders_to_hold ==
        {o \in DOMAIN st.orders :
           /\ st.orders[o].product_id = st.orders[spike_id].product_id
           /\ ~st.orders[o].is_spike
           /\ o # spike_id}
      held == HoldAll(st, run_id, orders_to_hold)
  IN [held EXCEPT !.occ = get_line_occupancy(held.items, held.plans, run_id)]

\* a preemption that frees the competitors' rows and leaves their status
handle_spike_preemption_KeepStatus(st, run_id, spike_id) ==
  LET orders_to_hold ==
        {o \in DOMAIN st.orders :
           /\ st.orders[o].product_id = st.orders[spike_id].product_id
           /\ ~st.orders[o].is_spike
           /\ st.orders[o].status \in {"OPEN", "ON_HOLD"}
           /\ o # spike_id}
      held == HoldAll(st, run_id, orders_to_hold)
  IN [held EXCEPT !.orders = st.orders,
                  !.occ = get_line_occupancy(held.items, held.plans, run_id)]

handle_spike_preemption(st, run_id, spike_id) ==
  LET orders_to_hold ==
        {o \in DOMAIN st.orders :
           /\ st.orders[o].product_id = st.orders[spike_id].product_id
           /\ ~st.orders[o].is_spike
           /\ st.orders[o].status \in {"OPEN", "ON_HOLD"}
           /\ o # spike_id}
      held == HoldAll(st, run_id, orders_to_hold)
  IN [held EXCEPT !.occ = get_line_occupancy(held.items, held.plans, run_id)]

\* a resume that reopens the product's spike orders too
resume_held_orders_AnyKind(ords, product_id) ==
  [o \in DOMAIN ords |->
     IF ords[o].product_id = product_id /\ ords[o].status = "ON_HOLD"
     THEN [ords[o] EXCEPT !.status = "OPEN"]
     ELSE ords[o]]

resume_held_orders_for_product(ords, product_id) ==
  [o \in DOMAIN ords |->
     IF /\ ords[o].product_id = product_id
        /\ ords[o].status = "ON_HOLD"
        /\ ~ords[o].is_spike
     THEN [ords[o] EXCEPT !.status = "OPEN"]
     ELSE ords[o]]

(***************************************************************************)
(* planning.py : capacity-inventory allocator (body of the per-order loop) *)
(***************************************************************************)
lines_by_product(p) == SelectSeq(LineSeq, LAMBDA l : LineProduct[l] = p)

bom_by_product_db(p) == SelectSeq(BomSeq, LAMBDA b : b.product_id = p)

\* stock_by_material.get(m, 0)
StockGet(stock, m) == IF m \in DOMAIN stock THEN stock[m] ELSE 0

\* step 4 of a pass: {i.material_id: i.current_stock for i in select(InventoryItem)}
stock_by_material == DBStock

RECURSIVE MaxUnitsRec(_, _, _, _, _)
MaxUnitsRec(bl, i, stock, usage, max_units) ==
  IF i > Len(bl) THEN max_units
  ELSE IF bl[i].quantity_per_unit <= 0
       THEN MaxUnitsRec(bl, i + 1, stock, usage, max_units)
       ELSE LET available == StockGet(stock, bl[i].material_id) - usage[bl[i].material_id]
                units_for_material == available \div bl[i].quantity_per_unit
            IN MaxUnitsRec(bl, i + 1, stock, usage,
                           Min2(max_units, Max2(0, units_for_material)))

\* an inventory limit that forgets what the pass has already planned to use
max_units_NoUsage(product_id, stock, usage) ==
  LET bom_list == bom_by_product_db(product_id)
  IN IF Len(bom_list) = 0 THEN Unbounded
     ELSE MaxUnitsRec(bom_list, 1, stock, [m \in Materials |-> 0], Unbounded)

max_units_from_inventory(product_id, stock, usage) ==
  LET bom_list == bom_by_product_db(product_id)
  IN IF Len(bom_list) = 0 THEN Unbounded
     ELSE MaxUnitsRec(bom_list, 1, stock, usage, Unbounded)

RECURSIVE ConsumeRec(_, _, _, _)
ConsumeRec(bl, i, units, usage) ==
  IF i > Len(bl) THEN usage
  ELSE ConsumeRec(bl, i + 1, units,
         [usage EXCEPT ![bl[i].material_id] = @ + units * bl[i].quantity_per_unit])

\* a reservation that is never written down
consume_inventory_Forget(product_id, units, usage) == usage

consume_inventory(product_id, units, usage) ==
  ConsumeRec(bom_by_product_db(product_id), 1, units, usage)

\* eff_daily_cap * horizon_days, in hundredths of a unit
CapUnitsH(l, horizon_days) == DailyCapacity[l] * OeePct[l] * horizon_days

\* line_capacity.get(line_id, 0.0): lines with cap_units <= 0 are not entered
LineCapacityH(l, horizon_days) == Max2(0, CapUnitsH(l, horizon_days))

RECURSIVE TotalCapacityH(_, _, _)
TotalCapacityH(ls, i, horizon_days) ==
  IF i > Len(ls) THEN 0
  ELSE LineCapacityH(ls[i], horizon_days) + TotalCapacityH(ls, i + 1, horizon_days)

\* int(round(n / d)) for n >= 0, d > 0: Python rounds halves to the even integer
RoundHalfEven(n, d) ==
  LET q == n \div d
      r == n % d
  IN IF 2 * r < d THEN q
     ELSE IF 2 * r > d THEN q + 1
     ELSE IF q % 2 = 0 THEN q ELSE q + 1

\* 10.6 first loop: proportional share, capped at what is left to allocate
QtyForLine(target_qty, cap, total, remaining_to_allocate) ==
  Max2(0, Min2(RoundHalfEven(target_qty * cap, total), remaining_to_allocate))

RECURSIVE SplitRec(_, _, _, _, _, _, _)
SplitRec(ls, i, horizon_days, target_qty, total, remaining, allocations) ==
  IF i > Len(ls) THEN [allocations |-> allocations, remaining |-> remaining]
  ELSE LET cap == LineCapacityH(ls[i], horizon_days)
       IN IF cap <= 0 \/ remaining <= 0
          THEN SplitRec(ls, i + 1, horizon_days, target_qty, total, remaining, allocations)
          ELSE LET q == QtyForLine(target_qty, cap, total, remaining)
               IN SplitRec(ls, i + 1, horizon_days, target_qty, total, remaining - q,
                           [allocations EXCEPT ![ls[i]] = @ + q])

\* sorted(order_lines, key=capacity, reverse=True): stable, larger capacity first
RECURSIVE InsertByCap(_, _, _)
InsertByCap(sorted, l, horizon_days) ==
  IF Len(sorted) = 0 THEN <<l>>
  ELSE IF LineCapacityH(l, horizon_days) > LineCapacityH(Head(sorted), horizon_days)
       THEN <<l>> \o sorted
       ELSE <<Head(sorted)>> \o InsertByCap(Tail(sorted), l, horizon_days)

RECURSIVE SortByCapDesc(_, _, _)
SortByCapDesc(ls, i, horizon_days) ==
  IF i = 0 THEN <<>>
  ELSE InsertByCap(SortByCapDesc(ls, i - 1, horizon_days), ls[i], horizon_days)

\* a split that leaves the rounding remainder unallocated
TopUpRec_None(ls, i, remaining, allocations) == allocations

\* 10.6 second loop: one extra unit per line, big lines first, a single pass
RECURSIVE TopUpRec(_, _, _, _)
TopUpRec(ls, i, remaining, allocations) ==
  IF i > Len(ls) \/ remaining <= 0 THEN allocations
  ELSE TopUpRec(ls, i + 1, remaining - 1, [allocations EXCEPT ![ls[i]] = @ + 1])

SplitAllocations(order_lines, horizon_days, target_qty, total) ==
  LET first == SplitRec(order_lines, 1, horizon_days, target_qty, total, target_qty,
                        [l \in Lines |-> 0])
  IN IF first.remaining > 0
     THEN TopUpRec(SortByCapDesc(order_lines, Len(order_lines), horizon_days), 1,
                   first.remaining, first.allocations)
     ELSE first.allocations

\* SQLite rowid of a new PlanItem: one more than the largest rowid in the table
NextItemId(its) == IF its = {} THEN 1 ELSE SetMax({it.item_id : it \in its}) + 1

\* alloc / eff_daily_cap days, in ticks of 1/TicksPerDay day
DurationTicks(l, alloc) ==
  IF DailyCapacity[l] * OeePct[l] > 0
  THEN (alloc * 100 * TicksPerDay) \div (DailyCapacity[l] * OeePct[l])
  ELSE 0

\* 10.7: PlanItem + OrderAllocation per line with alloc > 0
RECURSIVE CreateItemsRec(_, _, _, _, _, _)
CreateItemsRec(st, ls, i, run_id, oid, allocations) ==
  IF i > Len(ls) THEN st
  ELSE LET l == ls[i]
           alloc == allocations[l]
       IN IF alloc <= 0 THEN CreateItemsRec(st, ls, i + 1, run_id, oid, allocations)
          ELSE LET o == st.orders[oid]
                   base_start == o.start_date * TicksPerDay
                   start_ts == get_line_available_start(st.occ[l], base_start)
                   end_ts == start_ts + DurationTicks(l, alloc)
                   id == NextItemId(st.items)
                   plan_item == [item_id |-> id, run_id |-> run_id, order_id |-> oid,
                                 line_id |-> l, product_id |-> o.product_id,
                                 planned_qty |-> alloc,
                                 start_ts |-> start_ts, end_ts |-> end_ts]
                   oa == [run_id |-> run_id, order_id |-> oid, line_id |-> l,
                          product_id |-> o.product_id, allocated_qty |-> alloc,
                          plan_item_id |-> id]
                   st2 == [st EXCEPT
                             !.usage = consume_inventory(o.product_id, alloc, st.usage),
                             !.items = st.items \cup {plan_item},
                             !.occ = [st.occ EXCEPT ![l] = @ \cup {<<start_ts, end_ts, id>>}],
                             !.allocs = st.allocs \cup {oa}]
               IN CreateItemsRec(st2, ls, i + 1, run_id, oid, allocations)

\* 10.5: demand, capacity and inventory give the target quantity
\* a target that forgets the order's own quantity
TargetQty_NoDemand(quantity, total, inv_limit) == Min2(total \div 100, inv_limit)

TargetQty(quantity, total, inv_limit) == Min2(quantity, Min2(total \div 100, inv_limit))

\* log_event(session, event_type, ...) about an order
LogEvent(st, event_type, oid) == [st EXCEPT !.events = @ \cup {<<event_type, oid>>}]

\* "Log shortfalls vs requested" (planning.py 403-419)
LogShortfalls(st, oid, quantity, total, inv_limit) ==
  LET st1 == IF total \div 100 < quantity
             THEN LogEvent(st, "CAPACITY_SHORTFALL", oid) ELSE st
  IN IF inv_limit < quantity THEN LogEvent(st1, "INVENTORY_SHORTFALL", oid) ELSE st1

\* 10.8: the final per-order shortfall event
LogFinalShortfall(st, run_id, oid) ==
  IF SumQty({a \in st.allocs : a.run_id = run_id /\ a.order_id = oid})
       < st.orders[oid].quantity
  THEN LogEvent(st, "CAPACITY_SHORTFALL", oid) ELSE st

\* a loop body that plans an order again although its ProductPlan exists
PlanOrder_Replan(st, run_id, oid) ==
  LET o == st.orders[oid]
      order_lines == lines_by_product(o.product_id)
      horizon_days == Max2(1, o.dispatch_date - o.start_date)
      total == TotalCapacityH(order_lines, 1, horizon_days)
      inv_limit == max_units_from_inventory(o.product_id, stock_by_material, st.usage)
      target_qty == TargetQty(o.quantity, total, inv_limit)
      withPlan == [st EXCEPT !.plans = st.plans \cup {<<run_id, oid>>}]
  IN IF Len(order_lines) = 0 THEN LogEvent(st, "NO_LINE_FOR_PRODUCT", oid)
     ELSE IF total <= 0 THEN LogEvent(withPlan, "CAPACITY_SHORTFALL", oid)
     ELSE IF inv_limit <= 0 THEN LogEvent(withPlan, "INVENTORY_SHORTFALL", oid)
     ELSE IF target_qty <= 0 THEN LogEvent(withPlan, "CAPACITY_SHORTFALL", oid)
     ELSE LogFinalShortfall(
            CreateItemsRec(LogShortfalls(withPlan, oid, o.quantity, total, inv_limit),
                           order_lines, 1, run_id, oid,
                           SplitAllocations(order_lines, horizon_days, target_qty, total)),
            run_id, oid)

\* body of `for order in orders_to_plan` (planning.py 328-506)
PlanOrder(st, run_id, oid) ==
  LET o == st.orders[oid]
      order_lines == lines_by_product(o.product_id)
      horizon_days == Max2(1, o.dispatch_date - o.start_date)
      total == TotalCapacityH(order_lines, 1, horizon_days)
      inv_limit == max_units_from_inventory(o.product_id, stock_by_material, st.usage)
      target_qty == TargetQty(o.quantity, total, inv_limit)
      withPlan == [st EXCEPT !.plans = st.plans \cup {<<run_id, oid>>}]
  IN IF Len(order_lines) = 0 THEN LogEvent(st, "NO_LINE_FOR_PRODUCT", oid)
     ELSE IF <<run_id, oid>> \in st.plans THEN st        \* already planned
     ELSE IF total <= 0 THEN LogEvent(withPlan, "CAPACITY_SHORTFALL", oid)
     ELSE IF inv_limit <= 0 THEN LogEvent(withPlan, "INVENTORY_SHORTFALL", oid)
     ELSE IF target_qty <= 0 THEN LogEvent(withPlan, "CAPACITY_SHORTFALL", oid)
     ELSE LogFinalShortfall(
            CreateItemsRec(LogShortfalls(withPlan, oid, o.quantity, total, inv_limit),
                           order_lines, 1, run_id, oid,
                           SplitAllocations(order_lines, horizon_days, target_qty, total)),
            run_id, oid)

(***************************************************************************)
(* planning.py : plan_all_open_orders                                      *)
(***************************************************************************)
\* key=lambda o: (o.priority, o.dispatch_date, o.start_date)
KeyLess(ords, a, b) ==
  \/ ords[a].priority < ords[b].priority
  \/ /\ ords[a].priority = ords[b].priority
     /\ \/ ords[a].dispatch_date < ords[b].dispatch_date
        \/ /\ ords[a].dispatch_date = ords[b].dispatch_date
           /\ ords[a].start_date < ords[b].start_date

\* list.sort is stable: an order goes before the first one with a larger key
RECURSIVE InsertByKey(_, _, _)
InsertByKey(ords, sorted, a) ==
  IF Len(sorted) = 0 THEN <<a>>
  ELSE IF KeyLess(ords, a, Head(sorted)) THEN <<a>> \o sorted
       ELSE <<Head(sorted)>> \o InsertByKey(ords, Tail(sorted), a)

RECURSIVE SortOrders(_, _, _)
SortOrders(ords, s, i) ==
  IF i = 0 THEN <<>>
  ELSE InsertByKey(ords, SortOrders(ords, s, i - 1), s[i])

\* select(Order).where(status == "OPEN") minus the already allocated ones,
\* in row order
OpenOrderIds(ords, already_allocated) ==
  SelectSeq([i \in 1..Len(ords) |-> i],
            LAMBDA o : ords[o].status = "OPEN" /\ o \notin already_allocated)

RECURSIVE PreemptAll(_, _, _, _)
PreemptAll(st, run_id, spike_orders, i) ==
  IF i > Len(spike_orders) THEN st
  ELSE PreemptAll(handle_spike_preemption(st, run_id, spike_orders[i]),
                  run_id, spike_orders, i + 1)

RECURSIVE PlanOrders(_, _, _, _)
PlanOrders(st, run_id, orders_to_plan, i) ==
  IF i > Len(orders_to_plan) THEN st
  ELSE PlanOrders(PlanOrder(st, run_id, orders_to_plan[i]), run_id, orders_to_plan, i + 1)

\* the orders the pass plans, in planning order (steps 8 and 9)
OrdersToPlan(ords, spike_orders, regular_orders) ==
  SortOrders(ords, spike_orders \o regular_orders,
             Len(spike_orders) + Len(regular_orders))

\* steps 1-9 of a pass over the committed rows `db` for the run `rc`: the
\* session state after preemption and the orders to plan, in planning order,
\* with the spike orders of step 8 and the session state before preemption
PassInput(db, rc) ==
  LET run_id == rc.run_id
      already_allocated == get_already_allocated_orders(db.orders, db.allocs, run_id)
      open == OpenOrderIds(db.orders, already_allocated)
      spike_orders == SelectSeq(open, LAMBDA o : db.orders[o].is_spike)
      regular_orders == SelectSeq(open, LAMBDA o : ~db.orders[o].is_spike)
      st0 == [orders |-> db.orders, plans |-> db.plans, items |-> db.items,
              allocs |-> db.allocs, events |-> db.events,
              usage |-> [m \in Materials |-> 0],
              occ |-> get_line_occupancy(db.items, db.plans, run_id)]
  IN [st |-> PreemptAll(st0, run_id, spike_orders, 1),
      orders_to_plan |-> OrdersToPlan(db.orders, spike_orders, regular_orders),
      spike_orders |-> spike_orders,
      st0 |-> st0]

\* one pass over the committed rows `db` for the run `rc`; the result is what
\* session.commit() writes
PlanPass(db, rc) ==
  LET run_id == rc.run_id
      runs1 == IF rc.is_new THEN db.runs \cup {run_id} ELSE db.runs
      profiles1 == IF rc.is_new
                   THEN db.profiles \cup {<<run_id, l>> : l \in Lines}
                   ELSE db.profiles
      inp == PassInput(db, rc)
      st2 == PlanOrders(inp.st, run_id, inp.orders_to_plan, 1)
  IN [orders |-> st2.orders, runs |-> runs1, profiles |-> profiles1,
      plans |-> st2.plans, items |-> st2.items, allocs |-> st2.allocs,
      events |-> st2.events]

Db == [orders |-> orders, runs |-> runs, profiles |-> profiles,
       plans |-> plans, items |-> items, allocs |-> allocs, events |-> events]

(***************************************************************************)
(* Operations on the planning store                                        *)
(***************************************************************************)
OrderRow(p, q, spike) ==
  [product_id |-> p, quantity |-> q, start_date |-> 0, dispatch_date |-> 1,
   status |-> "OPEN", priority |-> IF spike THEN 1 ELSE 5, is_spike |-> spike]

\* an order enters the order store (seed_data.py 268-269, scenarios.py 89-99)
CreateOrder ==
  /\ Len(orders) < MaxOrders
  /\ \E p \in Products, q \in 1..MaxQty, spike \in BOOLEAN :
       orders' = Append(orders, OrderRow(p, q, spike))
  /\ lastOp' = "other"
  /\ UNCHANGED <<concVars, cfgVars, call>>
  /\ UNCHANGED <<runs, profiles, plans, items, allocs, events, simVars>>

\* plan_all_open_orders, run alone in its session
Plan ==
  /\ LET out == PlanPass(Db, get_or_create_plan_run(runs, clock))
     IN /\ orders' = out.orders
        /\ runs' = out.runs
        /\ profiles' = out.profiles
        /\ plans' = out.plans
        /\ items' = out.items
        /\ allocs' = out.allocs
        /\ events' = out.events
        /\ lastOp' = IF out = Db THEN lastOp ELSE "plan"
  /\ UNCHANGED <<concVars, cfgVars, call>>
  /\ UNCHANGED simVars

\* resume_held_orders_for_product, committed by its caller
Resume ==
  /\ \E p \in Products :
       /\ \E o \in DOMAIN orders : orders[o].product_id = p /\ orders[o].status = "ON_HOLD"
       /\ orders' = resume_held_orders_for_product(orders, p)
  /\ lastOp' = "resume"
  /\ UNCHANGED <<concVars, cfgVars, call>>
  /\ UNCHANGED <<runs, profiles, plans, items, allocs, events, simVars>>

\* the seeded store, before the first plan() and before the simulator starts,
\* but for the Order, Line and InventoryItem rows
InitRows ==
  /\ runs = {}
  /\ profiles = {}
  /\ plans = {}
  /\ items = {}
  /\ allocs = {}
  /\ pos = {}
  /\ today = 0
  /\ inventory_state = <<>>
  /\ initial_inventory_by_material = <<>>
  /\ bom_loaded = FALSE
  /\ line_state = <<>>
  /\ simulation_running = FALSE
  /\ ticks = 0
  /\ credits = [id \in Materials \X (0..MaxDay) |-> 0]
  /\ plan_completed = 0
  /\ clock = 1
  /\ plan_session = [c \in PlanCallers |-> NoSession]
  /\ sweep_session = [c \in SweepCallers |-> NoSession]
  /\ events = {}
  /\ loops = [t \in LoopTasks |-> "none"]
  /\ write_enabled = TRUE
  /\ pending_actions = {}
  /\ decision_log = <<>>
  /\ lastOp = "init"

InitStore == InitRows /\ call = NoCall

Init == InitStore /\ orders = SeedOrders /\ line_rows = SeedLines /\ DBStock = SeedStock

Next == CreateOrder \/ Plan \/ Resume

Spec == Init /\ [][Next]_vars

\* Line rows a plant may hold: each PA line idle, slow or fast, at half or
\* full efficiency
CapacityChoices == {0, 1, 3}

OeeChoices == {50, 100}

PlantChoices ==
  {[SeedLines EXCEPT !["LA1"] = a, !["LA2"] = b] :
     a, b \in [daily_capacity : CapacityChoices, oee_pct : OeeChoices]}

\* the seeded stock, or enough of M1 for four units of PA
StockChoices == {SeedStock, [SeedStock EXCEPT !["M1"] = 9]}

\* the seeded orders, alone or followed by any one further order
OrderChoices ==
  {SeedOrders} \cup
  {Append(SeedOrders, OrderRow(p, q, spike)) :
     p \in Products, q \in 1..MaxQty, spike \in BOOLEAN}

InitPlant ==
  /\ InitStore
  /\ orders \in OrderChoices
  /\ line_rows \in PlantChoices
  /\ DBStock \in StockChoices

\* a store with one seeded order and M1 for a single unit of PA
ScarceStock == [SeedStock EXCEPT !["M1"] = 2]

InitScarce ==
  /\ InitStore
  /\ orders = SubSeq(SeedOrders, 1, 1)
  /\ line_rows = SeedLines
  /\ DBStock = ScarceStock

\* the planning operations on the scarce store
SpecScarce == InitScarce /\ [][Next]_vars

\* an order for a single unit enters the order store
CreateUnitOrder ==
  /\ Len(orders) < MaxOrders
  /\ \E p \in Products, spike \in BOOLEAN :
       orders' = Append(orders, OrderRow(p, 1, spike))
  /\ lastOp' = "other"
  /\ UNCHANGED <<concVars, cfgVars, call>>
  /\ UNCHANGED <<runs, profiles, plans, items, allocs, events, simVars>>

NextRepeat == CreateUnitOrder \/ Plan \/ Resume

\* plan() passes repeated on the scarce store while single-unit orders arrive
SpecRepeat == InitScarce /\ [][NextRepeat]_vars

NextPlant == Plan \/ Resume

\* Order rows as the table admits them: any priority, dispatch date and start
\* date, spike or not (master.py 29-37)
PriorityChoices == {1, 5}

RankedRows ==
  {[product_id |-> p, quantity |-> 1, start_date |-> sd, dispatch_date |-> dd,
    status |-> "OPEN", priority |-> pr, is_spike |-> spike] :
     p \in Products, sd \in {0, 1}, dd \in {1, 2}, pr \in PriorityChoices,
     spike \in BOOLEAN}

InitRanked ==
  /\ InitStore
  /\ orders \in {<<a, b>> : a \in RankedRows, b \in RankedRows}
  /\ line_rows = SeedLines
  /\ DBStock = SeedStock

\* plan() and resume on stores holding two Order rows of any rank
SpecRanked == InitRanked /\ [][NextPlant]_vars

\* Order rows in any status the table admits (master.py 35)
StatusChoices == {"OPEN", "ON_HOLD", "COMPLETED"}

StatusRows ==
  {[OrderRow(p, 1, spike) EXCEPT !.status = status] :
     p \in Products, spike \in BOOLEAN, status \in StatusChoices}

InitStatus ==
  /\ InitStore
  /\ orders \in {Append(SubSeq(SeedOrders, 1, 1), a) : a \in StatusRows}
  /\ line_rows = SeedLines
  /\ DBStock = SeedStock

\* step 1 of trigger_demand_spike, committed on its own: a spike order for a
\* product that has lines enters the order store (scenarios.py 86-106)
DemandSpikeOrder ==
  /\ Len(orders) < MaxOrders
  /\ \E p \in {LineProduct[l] : l \in Lines} :
       orders' = Append(orders, OrderRow(p, 1, TRUE))
  /\ lastOp' = "other"
  /\ UNCHANGED <<concVars, cfgVars, call>>
  /\ UNCHANGED <<runs, profiles, plans, items, allocs, events, simVars>>

NextStatus == DemandSpikeOrder \/ Plan \/ Resume

\* demand spikes, plan() and resume on stores that start with the first seeded
\* order and an Order row of any status
SpecStatus == InitStatus /\ [][NextStatus]_vars

(***************************************************************************)
(* get_line_available_start called on its own, on occupancy lists of up to *)
(* two bookings within 0..MaxTime                                          *)
(***************************************************************************)
Bookings ==
  {<<iv[1], iv[2], 1 + iv[1] * (MaxTime + 1) + iv[2]>> :
     iv \in {x \in (0..MaxTime) \X (0..MaxTime) : x[1] <= x[2]}}

OccupancyChoices == {S \in SUBSET Bookings : Cardinality(S) <= 2}

AvailableStartCalls ==
  {[fn |-> "get_line_available_start", line_occupancy |-> occ,
    desired_start |-> d, result |-> {}] :
     occ \in OccupancyChoices, d \in 0..MaxTime}

InitAvailableStart ==
  /\ InitRows
  /\ orders = SeedOrders
  /\ line_rows = SeedLines
  /\ DBStock = SeedStock
  /\ call \in AvailableStartCalls

\* the call returns
CallAvailableStart ==
  /\ call.fn = "get_line_available_start"
  /\ call.result = {}
  /\ call' = [call EXCEPT !.result =
                {get_line_available_start(call.line_occupancy, call.desired_start)}]
  /\ lastOp' = "other"
  /\ UNCHANGED <<planVars, simVars, concVars, cfgVars>>

SpecAvailableStart == InitAvailableStart /\ [][CallAvailableStart]_vars

\* plan() and resume on stores whose Order, Line and InventoryItem rows are
\* drawn from OrderChoices, PlantChoices and StockChoices
SpecPlant == InitPlant /\ [][NextPlant]_vars


(***************************************************************************)
(* inventory.py / purchase_order.py : ledger, delivery, replenishment      *)
(***************************************************************************)
\* dict.get(k, default) and dict[k] = v on the module-level dictionaries
DictGet(d, k, default) == IF k \in DOMAIN d THEN d[k] ELSE default

DictPut(d, k, v) == [x \in DOMAIN d \cup {k} |-> IF x = k THEN v ELSE d[x]]

PoId(po) == <<po.material_id, po.order_date>>

\* inventory.bom_by_product.get(product_id, []): empty until init_simulation_state
bom_by_product(loaded, p) == IF loaded THEN bom_by_product_db(p) ELSE <<>>

\* init_simulation_state: stock of the BOM materials that have an inventory row
LoadedInventory ==
  LET mat_ids == {BomSeq[i].material_id : i \in 1..Len(BomSeq)}
  IN [m \in mat_ids \cap InvMaterials |-> DBStock[m]]

\* init_line_state: zeroed counters for every Line row
InitialLineState ==
  [l \in Lines |-> [units_completed |-> 0, units_completed_int |-> 0]]

\* update_purchase_orders, the ledger side: the quantity of every due PO
RECURSIVE CreditAll(_, _)
CreditAll(ledger, due) ==
  IF due = {} THEN ledger
  ELSE LET po == CHOOSE x \in due : TRUE
       IN CreditAll(DictPut(ledger, po.material_id,
                            DictGet(ledger, po.material_id, 0) + po.quantity),
                    due \ {po})

DuePOs(ps, day) == {po \in ps : po.status # "DELIVERED" /\ day >= po.eta_date}

\* update_purchase_orders: the session's PO rows and the ledger afterwards
update_purchase_orders(ps, ledger, day) ==
  LET due == DuePOs(ps, day)
  IN [pos |-> (ps \ due) \cup {[po EXCEPT !.status = "DELIVERED"] : po \in due},
      ledger |-> CreditAll(ledger, due),
      due |-> due]

RECURSIVE QtyByProduct(_, _, _)
QtyByProduct(ords, i, p) ==
  IF i > Len(ords) THEN 0
  ELSE (IF ords[i].product_id = p THEN ords[i].quantity ELSE 0)
       + QtyByProduct(ords, i + 1, p)

OrderedProducts(ords) == {ords[i].product_id : i \in 1..Len(ords)}

RECURSIVE RequiredRec(_, _, _, _, _)
RequiredRec(ords, loaded, bl, i, m) ==
  IF i > Len(bl) THEN 0
  ELSE (IF bl[i].material_id = m /\ bl[i].product_id \in OrderedProducts(ords)
        THEN bl[i].quantity_per_unit * QtyByProduct(ords, 1, bl[i].product_id)
        ELSE 0)
       + RequiredRec(ords, loaded, bl, i + 1, m)

\* required_by_material: its keys, and the requirement of one material
RequiredKeys(ords, loaded) ==
  IF loaded
  THEN {BomSeq[i].material_id :
          i \in {j \in 1..Len(BomSeq) : BomSeq[j].product_id \in OrderedProducts(ords)}}
  ELSE {}

required_by_material(ords, loaded, m) ==
  IF loaded THEN RequiredRec(ords, loaded, BomSeq, 1, m) ELSE 0

\* remaining_requirement = max(0, required - current), current from the ledger
remaining_requirement(ords, loaded, seed, ledger, m) ==
  LET seed_m == DictGet(seed, m, DBStock[m])
      current == DictGet(ledger, m, seed_m)
  IN Max2(0, required_by_material(ords, loaded, m) - current)

\* a sweep that never finds the open PO of a material
existing_po_Never(ps, m) == FALSE

\* step 4 of the sweep: is any PO open for this material?
existing_po(ps, m) == \E po \in ps : po.material_id = m /\ po.status # "DELIVERED"

\* check_and_place_purchase_orders: the PurchaseOrder rows the sweep adds
check_and_place_purchase_orders(ords, loaded, seed, ledger, ps, day) ==
  {[material_id |-> m, order_date |-> day,
    quantity |-> remaining_requirement(ords, loaded, seed, ledger, m),
    eta_date |-> day + LeadTime[m], status |-> "PLACED"] :
     m \in {x \in RequiredKeys(ords, loaded) \cap InvMaterials :
              /\ remaining_requirement(ords, loaded, seed, ledger, x) > 0
              /\ ~existing_po(ps, x)}}

\* po_id is the primary key: inserting a row whose po_id exists fails the flush
PkConflict(ps, new) == \E po \in ps : \E n \in new : PoId(po) = PoId(n)

\* session.commit(): the status updates and the inserts of one session reach
\* the store together, or the IntegrityError of an insert loses them all
CommitSession(ps, delivered, new) ==
  IF PkConflict(ps, new) THEN ps
  ELSE {IF PoId(po) \in delivered THEN [po EXCEPT !.status = "DELIVERED"] ELSE po :
          po \in ps} \cup new

(***************************************************************************)
(* simulation.py : one tick                                                *)
(***************************************************************************)
\* consumption without the floor at zero
ConsumeOne_NoFloor(current_stock, quantity_per_unit) == current_stock - quantity_per_unit

\* inventory_state[m] = max(0, current_stock - quantity_per_unit)
ConsumeOne(current_stock, quantity_per_unit) == Max2(0, current_stock - quantity_per_unit)

RECURSIVE ConsumeBom(_, _, _)
ConsumeBom(ledger, bl, i) ==
  IF i > Len(bl) THEN ledger
  ELSE ConsumeBom(DictPut(ledger, bl[i].material_id,
                          ConsumeOne(DictGet(ledger, bl[i].material_id, 0),
                                     bl[i].quantity_per_unit)),
                  bl, i + 1)

\* consumption that takes one unit's materials however many units were built
ConsumeUnits_Once(ledger, bl, delta_units) ==
  IF delta_units <= 0 THEN ledger ELSE ConsumeBom(ledger, bl, 1)

\* for _ in range(delta_units): for bom in bom_list: ...
RECURSIVE ConsumeUnits(_, _, _)
ConsumeUnits(ledger, bl, delta_units) ==
  IF delta_units <= 0 THEN ledger
  ELSE ConsumeUnits(ConsumeBom(ledger, bl, 1), bl, delta_units - 1)

RECURSIVE TotalCompleted(_, _)
TotalCompleted(ls, S) ==
  IF S = {} THEN 0
  ELSE LET l == CHOOSE x \in S : TRUE
       IN ls[l].units_completed + TotalCompleted(ls, S \ {l})

RECURSIVE TotalPlanned(_, _)
TotalPlanned(ords, i) ==
  IF i > Len(ords) THEN 0 ELSE ords[i].quantity + TotalPlanned(ords, i + 1)

\* units_for_order = int(units_produced * (allocated_qty / total_allocated))
units_for_order(allocated_qty, total_allocated, units_produced) ==
  (units_produced * allocated_qty) \div total_allocated

RECURSIVE TotalAllocated(_, _)
TotalAllocated(allocations, i) ==
  IF i > Len(allocations) THEN 0
  ELSE allocations[i].allocated_qty + TotalAllocated(allocations, i + 1)

\* update_order_progress for a run with no OrderProgress row yet: the rows it
\* adds, given the line's OrderAllocation rows (each with its order's quantity)
update_order_progress(allocations, units_produced) ==
  LET total_allocated == TotalAllocated(allocations, 1)
      share(i) == units_for_order(allocations[i].allocated_qty, total_allocated,
                                  units_produced)
  IN IF units_produced <= 0 \/ Len(allocations) = 0 \/ total_allocated <= 0 THEN {}
     ELSE {[order_id |-> allocations[i].order_id,
            completed_qty |-> Min2(share(i), allocations[i].quantity),
            remaining_qty |-> Max2(0, allocations[i].quantity
                                        - Min2(share(i), allocations[i].quantity))] :
             i \in {j \in 1..Len(allocations) : share(j) > 0}}

\* a line that builds what its rate gives, whatever demand remains
ClampProduced_Uncapped(produced, remaining) == produced

\* cap at the remaining plant-wide demand (simulation.py 232-237)
ClampProduced(produced, remaining) ==
  IF remaining <= 0 THEN 0
  ELSE IF produced > remaining THEN remaining ELSE produced

\* step 7 for the lines of line_state, in dictionary order
RECURSIVE ProduceRec(_, _, _, _, _, _, _)
ProduceRec(st, ls, i, run_id, profs, loaded, produced) ==
  IF i > Len(ls) THEN st
  ELSE LET l == ls[i]
       IN IF <<run_id, l>> \notin profs
          THEN ProduceRec(st, ls, i + 1, run_id, profs, loaded, produced)
          ELSE LET state == st.line_state[l]
                   p == ClampProduced(produced[l], st.total_planned - st.total_completed)
                   units == state.units_completed + p
                   old_int == state.units_completed_int
                   new_int == units \div UnitScale
                   delta_units == Max2(0, new_int - old_int)
                   st2 == [st EXCEPT
                             !.line_state[l] = [units_completed |-> units,
                                                units_completed_int |-> new_int],
                             !.total_completed = @ + p,
                             !.ledger = ConsumeUnits(st.ledger,
                                          bom_by_product(loaded, LineProduct[l]),
                                          delta_units)]
               IN ProduceRec(st2, ls, i + 1, run_id, profs, loaded, produced)

\* what one call of step_simulation_once does, given the per-line random
\* output `produced`: the module globals afterwards and the PurchaseOrder
\* writes its session holds when it reaches session.commit()
TickResult(produced) ==
  LET upd == update_purchase_orders(pos, inventory_state, today)
      none == [delivered |-> {}, new |-> {}, ledger |-> inventory_state,
               line_state |-> line_state, running |-> simulation_running,
               due |-> {}, completed |-> FALSE]
      early == [none EXCEPT !.ledger = upd.ledger, !.due = upd.due]
      run_id == SetMax(runs)
      total_planned == TotalPlanned(orders, 1) * UnitScale
      total_completed == TotalCompleted(line_state, DOMAIN line_state)
      lines_in_state == SelectSeq(LineSeq, LAMBDA l : l \in DOMAIN line_state)
      st == ProduceRec([line_state |-> line_state, ledger |-> upd.ledger,
                        total_planned |-> total_planned,
                        total_completed |-> total_completed],
                       lines_in_state, 1, run_id, profiles, bom_loaded, produced)
      new == check_and_place_purchase_orders(orders, bom_loaded,
               initial_inventory_by_material, st.ledger, upd.pos, today)
  IN IF Len(orders) = 0 THEN none
     ELSE IF runs = {} THEN early
     ELSE IF {pr \in profiles : pr[1] = run_id} = {} THEN early
     ELSE IF total_completed >= total_planned
          THEN [early EXCEPT !.running = FALSE,
                             !.delivered = {PoId(po) : po \in upd.due},
                             !.completed = TRUE]
     ELSE [delivered |-> {PoId(po) : po \in upd.due}, new |-> new,
           ledger |-> st.ledger, line_state |-> st.line_state,
           running |-> simulation_running, due |-> upd.due, completed |-> FALSE]

ProdChoices == {0, MaxProd}

\* the session.commit() that ends the call raises IntegrityError when a new
\* PurchaseOrder takes the po_id of a stored one
TickRaises(produced) == PkConflict(pos, TickResult(produced).new)

\* step_simulation_once, given the per-line random output
step_simulation_once_with(produced) ==
  /\ LET out == TickResult(produced)
       IN /\ pos' = CommitSession(pos, out.delivered, out.new)
          /\ inventory_state' = out.ledger
          /\ line_state' = out.line_state
          /\ simulation_running' = out.running
          /\ credits' = [id \in DOMAIN credits |->
                           credits[id] + Cardinality({po \in out.due : PoId(po) = id})]
          /\ plan_completed' = IF out.completed
                                THEN Min2(plan_completed + 1, MaxTicks + 1)
                                ELSE plan_completed
  /\ UNCHANGED <<concVars, cfgVars, call>>
  /\ UNCHANGED <<planVars, today, initial_inventory_by_material, bom_loaded>>

\* step_simulation_once: what one call does to the store and the module globals
step_simulation_once ==
  \E produced \in [Lines -> ProdChoices] : step_simulation_once_with(produced)

\* one call of step_simulation_once, whichever loop makes it
Tick ==
  /\ ticks < MaxTicks
  /\ step_simulation_once
  /\ ticks' = ticks + 1
  /\ lastOp' = "tick"
  /\ UNCHANGED loops

\* check_and_place_purchase_orders called in a session of its own and committed
\* (SupplyChainAgent._create_purchase_order under agent_loop_sync)
Sweep ==
  /\ write_enabled
  /\ LET new == check_and_place_purchase_orders(orders, bom_loaded,
                  initial_inventory_by_material, inventory_state, pos, today)
     IN /\ pos' = CommitSession(pos, {}, new)
        /\ lastOp' = IF CommitSession(pos, {}, new) = pos THEN lastOp ELSE "other"
  /\ UNCHANGED <<concVars, cfgVars, call>>
  /\ UNCHANGED <<planVars, today, inventory_state, initial_inventory_by_material,
                 bom_loaded, line_state, simulation_running, ticks, credits, plan_completed, loops>>

\* SupplyChainAgent._expedite_po: the open PO of a material, two days earlier
\* (day numbers stay naturals)
Expedite ==
  /\ write_enabled
  /\ \E po \in pos :
       /\ po.status # "DELIVERED"
       /\ po.eta_date >= 2
       /\ pos' = (pos \ {po}) \cup
                 {[po EXCEPT !.eta_date = po.eta_date - 2, !.status = "EXPEDITED"]}
  /\ lastOp' = "other"
  /\ UNCHANGED <<concVars, cfgVars, call>>
  /\ UNCHANGED <<planVars, today, inventory_state, initial_inventory_by_material,
                 bom_loaded, line_state, simulation_running, ticks, credits, plan_completed, loops>>

\* trigger_chip_delay: the open semiconductor PO with the earliest ETA, two days later
ChipDelay ==
  /\ \E po \in pos :
       /\ po.material_id \in SemiconductorIds
       /\ po.status # "DELIVERED"
       /\ \A other \in pos :
            (other.material_id \in SemiconductorIds /\ other.status # "DELIVERED")
              => po.eta_date <= other.eta_date
       /\ po.eta_date < MaxDay
       /\ pos' = (pos \ {po}) \cup
                 {[po EXCEPT !.eta_date = po.eta_date + 2, !.status = "DELAYED"]}
  /\ lastOp' = "other"
  /\ UNCHANGED <<concVars, cfgVars, call>>
  /\ UNCHANGED <<planVars, today, inventory_state, initial_inventory_by_material,
                 bom_loaded, line_state, simulation_running, ticks, credits, plan_completed, loops>>

\* midnight passes
AdvanceDay ==
  /\ today < MaxDay
  /\ today' = today + 1
  /\ lastOp' = "other"
  /\ UNCHANGED <<concVars, cfgVars, call>>
  /\ UNCHANGED <<planVars, pos, inventory_state, initial_inventory_by_material,
                 bom_loaded, line_state, simulation_running, ticks, credits, plan_completed, loops>>

\* a start that ignores the running flag
start_simulation_Always ==
  /\ simulation_running' = TRUE
  /\ bom_loaded' = TRUE
  /\ inventory_state' = LoadedInventory
  /\ initial_inventory_by_material' = LoadedInventory
  /\ line_state' = InitialLineState
  /\ UNCHANGED <<concVars, cfgVars, call>>
  /\ \E t \in LoopTasks :
       /\ loops[t] = "none"
       /\ \A u \in LoopTasks : loops[u] = "none" => t <= u
       /\ loops' = [loops EXCEPT ![t] = "check"]
  /\ plan_completed' = 0
  /\ UNCHANGED <<planVars, pos, today, ticks, credits>>

\* start_simulation: "already_running" changes nothing; otherwise the flag is
\* set, the ledger and the line counters are re-initialised and a new
\* simulation_loop task is created
start_simulation ==
  IF simulation_running
  THEN UNCHANGED <<planVars, simVars, concVars, cfgVars, call>>
  ELSE /\ simulation_running' = TRUE
       /\ bom_loaded' = TRUE
       /\ inventory_state' = LoadedInventory
       /\ initial_inventory_by_material' = LoadedInventory
       /\ line_state' = InitialLineState
       /\ UNCHANGED <<concVars, cfgVars, call>>
       /\ \E t \in LoopTasks :
            /\ loops[t] = "none"
            /\ \A u \in LoopTasks : loops[u] = "none" => t <= u
            /\ loops' = [loops EXCEPT ![t] = "check"]
       /\ plan_completed' = 0
       /\ UNCHANGED <<planVars, pos, today, ticks, credits>>

\* a call of start_simulation that starts the simulator
StartSimulation ==
  /\ start_simulation
  /\ lastOp' = IF simulation_running THEN lastOp ELSE "other"

\* stop_simulation
StopSimulation ==
  /\ simulation_running
  /\ simulation_running' = FALSE
  /\ lastOp' = "other"
  /\ UNCHANGED <<concVars, cfgVars, call>>
  /\ UNCHANGED <<planVars, pos, today, inventory_state, initial_inventory_by_material,
                 bom_loaded, line_state, ticks, credits, plan_completed, loops>>

NextSim ==
  \/ Tick \/ Sweep \/ Expedite \/ ChipDelay \/ AdvanceDay
  \/ StartSimulation \/ StopSimulation \/ Plan

\* the simulator and the replenishment controller on the seeded store
SpecSim == Init /\ [][NextSim]_vars

(***************************************************************************)
(* update_order_progress called on its own, for a line with up to two      *)
(* OrderAllocation rows of orders that are wholly planned on the line      *)
(***************************************************************************)
AllocationRows(order_id) ==
  {[order_id |-> order_id, allocated_qty |-> q, quantity |-> q] : q \in 1..MaxQty}

AllocationChoices ==
  {<<>>} \cup {<<a>> : a \in AllocationRows(1)}
         \cup {<<a, b>> : a \in AllocationRows(1), b \in AllocationRows(2)}

ProgressCalls ==
  {[fn |-> "update_order_progress", allocations |-> al, units_produced |-> d,
    result |-> {}] : al \in AllocationChoices, d \in 0..MaxQty}

InitProgress ==
  /\ InitRows
  /\ orders = SeedOrders
  /\ line_rows = SeedLines
  /\ DBStock = SeedStock
  /\ call \in ProgressCalls

\* the call returns
CallProgress ==
  /\ call.fn = "update_order_progress"
  /\ call.result = {}
  /\ call' = [call EXCEPT !.result =
                {update_order_progress(call.allocations, call.units_produced)}]
  /\ lastOp' = "other"
  /\ UNCHANGED <<planVars, simVars, concVars, cfgVars>>

SpecProgress == InitProgress /\ [][CallProgress]_vars

(***************************************************************************)
(* The simulation_loop tasks: each start creates one; a task tests the      *)
(* running flag, runs one tick, sleeps a second and tests the flag again.   *)
(* The endpoints that call start and stop run on worker threads, so they    *)
(* interleave with a task at any of its positions.                          *)
(***************************************************************************)

\* a loop that never leaves
LoopCheck_Stay(t) ==
  /\ loops[t] \in {"check", "sleep"}
  /\ \A u \in LoopTasks : loops[u] # "tick"
  /\ simulation_running
  /\ ticks < MaxTicks
  /\ loops' = [loops EXCEPT ![t] = "tick"]
  /\ ticks' = ticks + 1
  /\ lastOp' = "other"
  /\ UNCHANGED <<planVars, pos, today, inventory_state, initial_inventory_by_material,
                 bom_loaded, line_state, simulation_running, credits,
                 plan_completed>>
  /\ UNCHANGED <<concVars, cfgVars, call>>

\* `while simulation_running:` as a task reaches it, newly created or after its
\* sleep: the task goes on to a tick or returns.  The tasks share one event
\* loop and a tick has no await, so no task is scheduled while another is
\* inside its tick.
LoopCheck(t) ==
  /\ loops[t] \in {"check", "sleep"}
  /\ \A u \in LoopTasks : loops[u] # "tick"
  /\ simulation_running => ticks < MaxTicks
  /\ loops' = [loops EXCEPT ![t] = IF simulation_running THEN "tick" ELSE "none"]
  /\ ticks' = IF simulation_running THEN ticks + 1 ELSE ticks
  /\ lastOp' = "other"
  /\ UNCHANGED <<planVars, pos, today, inventory_state, initial_inventory_by_material,
                 bom_loaded, line_state, simulation_running, credits,
                 plan_completed>>
  /\ UNCHANGED <<concVars, cfgVars, call>>

\* `await step_simulation_once()` followed by the start of the sleep; the loop
\* has no try/except, so an exception of the tick ends the task
LoopTick(t) ==
  /\ loops[t] = "tick"
  /\ \E produced \in [Lines -> ProdChoices] :
       /\ step_simulation_once_with(produced)
       /\ loops' = [loops EXCEPT ![t] = IF TickRaises(produced) THEN "none" ELSE "sleep"]
  /\ lastOp' = "tick"
  /\ UNCHANGED ticks

\* a call of start_simulation, with its return value
StartCall ==
  /\ start_simulation
  /\ lastOp' = IF simulation_running THEN "already_running" ELSE "started"

NextLoop ==
  \/ StartCall \/ StopSimulation \/ Plan
  \/ \E t \in LoopTasks : LoopCheck(t)
  \/ \E t \in LoopTasks : LoopTick(t)

\* start, stop and the loop tasks on the seeded store
SpecLoop == Init /\ [][NextLoop]_vars

NextLoopSupply ==
  \/ StartCall \/ StopSimulation \/ Plan \/ Sweep \/ Expedite
  \/ \E t \in LoopTasks : LoopCheck(t)
  \/ \E t \in LoopTasks : LoopTick(t)

\* the loop tasks beside the supply chain agent, which places and expedites
\* purchase orders in sessions of its own
SpecLoopSupply == Init /\ [][NextLoopSupply]_vars

\* every task that can run is run: the event loop schedules a created task and
\* wakes a sleeping one after its second.
\* the steps of LoopTick(t), told by what they do to the task; a tick that has
\* begun can always return
TickReturns(t) == loops[t] = "tick" /\ loops' = [loops EXCEPT ![t] = "sleep"]

LoopFairness ==
  \A t \in LoopTasks : WF_vars(LoopCheck(t)) /\ WF_loops(TickReturns(t))

SpecLoopFair == SpecLoop /\ LoopFairness

(***************************************************************************)
(* The loop left to run: no stop is called and the number of ticks is not  *)
(* bounded (the counter `ticks` stops at MaxTicks).                        *)
(***************************************************************************)

\* a loop that never tests the flag
LoopAgain_Stay(t) ==
  /\ loops[t] \in {"check", "sleep"}
  /\ \A u \in LoopTasks : loops[u] # "tick"
  /\ loops' = [loops EXCEPT ![t] = "tick"]
  /\ ticks' = Min2(ticks + 1, MaxTicks)
  /\ lastOp' = "other"
  /\ UNCHANGED <<planVars, pos, today, inventory_state, initial_inventory_by_material,
                 bom_loaded, line_state, simulation_running, credits, plan_completed>>
  /\ UNCHANGED <<concVars, cfgVars, call>>

\* `while simulation_running:` as a task reaches it
LoopAgain(t) ==
  /\ loops[t] \in {"check", "sleep"}
  /\ \A u \in LoopTasks : loops[u] # "tick"
  /\ loops' = [loops EXCEPT ![t] = IF simulation_running THEN "tick" ELSE "none"]
  /\ ticks' = IF simulation_running THEN Min2(ticks + 1, MaxTicks) ELSE ticks
  /\ lastOp' = "other"
  /\ UNCHANGED <<planVars, pos, today, inventory_state, initial_inventory_by_material,
                 bom_loaded, line_state, simulation_running, credits, plan_completed>>
  /\ UNCHANGED <<concVars, cfgVars, call>>

NextComplete ==
  \/ StartCall \/ Plan
  \/ \E t \in LoopTasks : LoopAgain(t)
  \/ \E t \in LoopTasks : LoopTick(t)

SpecComplete == Init /\ [][NextComplete]_vars

\* a task that can test the flag does, and its tick returns
CompleteFairness ==
  \A t \in LoopTasks : WF_vars(LoopAgain(t)) /\ WF_loops(TickReturns(t))

SpecCompleteFair == SpecComplete /\ CompleteFairness

(***************************************************************************)
(* The agents: one cycle is observe, think, act and the runner's commit.   *)
(* What think() returns depends on KPIs and on the language model, so the  *)
(* decision is an input of the cycle.  The AGENT_DECISION_*, SUPPLY_CHAIN_*,*)
(* MAINTENANCE_* and ORCHESTRATOR_* rows a cycle adds to EventLog are not   *)
(* kept in `events`.                                                       *)
(***************************************************************************)

\* set_dry_run(enabled)
SetDryRun ==
  /\ \E enabled \in BOOLEAN : write_enabled' = ~enabled
  /\ lastOp' = "other"
  /\ UNCHANGED <<planVars, simVars, concVars, line_rows, DBStock, pending_actions,
                 decision_log, call>>

PlanningDecisions == {"CONTINUE", "REPLAN", "EXPEDITE_PO", "ADJUST_PRIORITY", "ALERT"}

\* PlanningAgent._execute_replan: plan_all_open_orders() in a session of its own
execute_replan(db) == PlanPass(db, get_or_create_plan_run(db.runs, clock))

\* PlanningAgent.act under run_cycle: only REPLAN reaches the store
PlanningAgentCycle ==
  /\ \E action \in PlanningDecisions :
       LET out == IF action = "REPLAN" THEN execute_replan(Db) ELSE Db
       IN /\ orders' = out.orders
          /\ runs' = out.runs
          /\ profiles' = out.profiles
          /\ plans' = out.plans
          /\ items' = out.items
          /\ allocs' = out.allocs
          /\ events' = out.events
  /\ lastOp' = "agent"
  /\ UNCHANGED <<simVars, concVars, cfgVars, call>>

SupplyChainDecisions == {"CONTINUE", "CREATE_PO", "EXPEDITE_PO", "ALERT_SHORTAGE"}

\* decision["affected_items"] empty
NoMaterial == "none"

\* SupplyChainAgent._create_purchase_order: the PurchaseOrder rows afterwards
create_purchase_order(material_id) ==
  IF material_id = NoMaterial THEN pos
  ELSE IF ~write_enabled THEN pos
  ELSE CommitSession(pos, {},
         check_and_place_purchase_orders(orders, bom_loaded,
           initial_inventory_by_material, inventory_state, pos, today))

\* SupplyChainAgent._expedite_po: the PurchaseOrder rows afterwards, `po` being
\* the open PO of the material that the query returns
expedite_po(po) ==
  IF ~write_enabled THEN pos
  ELSE (pos \ {po}) \cup
       {[po EXCEPT !.eta_date = po.eta_date - 2, !.status = "EXPEDITED"]}

\* SupplyChainAgent._alert_shortage: the AgentPendingAction rows afterwards
alert_shortage(material_id) ==
  IF write_enabled /\ material_id # NoMaterial
  THEN pending_actions \cup
       {[agent_name |-> "supply_chain", action_type |-> "ALERT_SHORTAGE",
         material_id |-> material_id, status |-> "PENDING"]}
  ELSE pending_actions

\* SupplyChainAgent.act under run_cycle
SupplyChainAgentCycle ==
  /\ \E action \in SupplyChainDecisions, material_id \in InvMaterials \cup {NoMaterial} :
       LET open == {po \in pos : /\ po.material_id = material_id
                                   /\ po.status # "DELIVERED"
                                   /\ po.eta_date >= 2}  \* day numbers stay naturals
       IN
       /\ pos' \in IF action = "CREATE_PO" THEN {create_purchase_order(material_id)}
                   ELSE IF action = "EXPEDITE_PO" /\ open # {}
                        THEN {expedite_po(po) : po \in open}
                   ELSE {pos}
       /\ pending_actions' = IF action = "ALERT_SHORTAGE"
                             THEN alert_shortage(material_id) ELSE pending_actions
  /\ lastOp' = "agent"
  /\ UNCHANGED <<planVars, concVars, line_rows, DBStock, write_enabled,
                 decision_log, call>>
  /\ UNCHANGED <<today, inventory_state, initial_inventory_by_material, bom_loaded,
                 line_state, simulation_running, ticks, credits, plan_completed, loops>>

\* MaintenanceAgent.act and OrchestratorAgent.act under run_cycle: every
\* decision of theirs ends in log_event calls only
MaintenanceAgentCycle ==
  /\ lastOp' = "agent"
  /\ UNCHANGED <<planVars, simVars, concVars, cfgVars, call>>

OrchestratorAgentCycle ==
  /\ lastOp' = "agent"
  /\ UNCHANGED <<planVars, simVars, concVars, cfgVars, call>>

NextAgents ==
  \/ SetDryRun
  \/ PlanningAgentCycle \/ SupplyChainAgentCycle
  \/ MaintenanceAgentCycle \/ OrchestratorAgentCycle
  \/ CreateOrder \/ StartSimulation

\* the agents on the seeded store, with orders arriving and the simulator started
SpecAgents == Init /\ [][NextAgents]_vars

(***************************************************************************)
(* agent_runner.py : the in-memory decision log.  Of an entry the model    *)
(* keeps whether it reports an error.                                      *)
(***************************************************************************)
\* _log_decision: append, then keep the last MAX_LOG_SIZE entries
log_decision(log) ==
  LET appended == Append(log, [error |-> FALSE])
  IN IF Len(appended) > MAX_LOG_SIZE
     THEN SubSeq(appended, Len(appended) - MAX_LOG_SIZE + 1, Len(appended))
     ELSE appended

\* _log_error: append
log_error(log) == Append(log, [error |-> TRUE])

ErrorsIn(log) == Cardinality({i \in 1..Len(log) : log[i].error})

\* agent_loop_sync: a cycle that returned
LogDecision ==
  /\ decision_log' = log_decision(decision_log)
  /\ lastOp' = "other"
  /\ UNCHANGED <<planVars, simVars, concVars, line_rows, DBStock, write_enabled,
                 pending_actions, call>>

\* agent_loop_sync: a cycle that raised (the log holds at most MaxErrors
\* error entries at a time)
LogError ==
  /\ ErrorsIn(decision_log) < MaxErrors
  /\ decision_log' = log_error(decision_log)
  /\ lastOp' = "other"
  /\ UNCHANGED <<planVars, simVars, concVars, line_rows, DBStock, write_enabled,
                 pending_actions, call>>

NextLog == LogDecision \/ LogError

\* the agent threads logging decisions and errors
SpecLog == Init /\ [][NextLog]_vars

(***************************************************************************)
(* plan() called from threads of their own                                 *)
(***************************************************************************)
\* get_or_create_plan_run in the caller's session: SELECT the latest BASELINE
\* run, or prepare a new one stamped with the current second
PlanSelect(c) ==
  /\ ~plan_session[c].open
  /\ plan_session' = [plan_session EXCEPT
                        ![c] = [open |-> TRUE, rc |-> get_or_create_plan_run(runs, clock)]]
  /\ lastOp' = "plan_select"
  /\ UNCHANGED <<planVars, simVars, clock, sweep_session, cfgVars, call>>

\* the rest of the pass and session.commit(); a new run whose run_id another
\* session has committed meanwhile violates the primary key and the pass is lost
PlanFinish(c) ==
  /\ plan_session[c].open
  /\ LET rc == plan_session[c].rc
         out == PlanPass(Db, rc)
         lost == rc.is_new /\ rc.run_id \in runs
     IN IF lost
        THEN UNCHANGED planVars
        ELSE /\ orders' = out.orders
             /\ runs' = out.runs
             /\ profiles' = out.profiles
             /\ plans' = out.plans
             /\ items' = out.items
             /\ allocs' = out.allocs
             /\ events' = out.events
  /\ plan_session' = [plan_session EXCEPT ![c] = NoSession]
  /\ lastOp' = "plan_finish"
  /\ UNCHANGED <<simVars, clock, sweep_session, cfgVars, call>>

\* a second passes on the wall clock
ClockTick ==
  /\ clock < MaxClock
  /\ clock' = clock + 1
  /\ lastOp' = "clock"
  /\ UNCHANGED <<planVars, simVars, plan_session, sweep_session, cfgVars, call>>

NextPlanConc ==
  \/ \E c \in PlanCallers : PlanSelect(c)
  \/ \E c \in PlanCallers : PlanFinish(c)
  \/ ClockTick
  \/ CreateOrder

\* plan() passes of two callers interleaving on the seeded store
SpecPlanConc == Init /\ [][NextPlanConc]_vars

(***************************************************************************)
(* plan() passes that read before another pass commits                     *)
(***************************************************************************)
\* session.add(plan_item); session.flush(): the database numbers the new
\* PlanItems in the order the pass created them, and each OrderAllocation
\* carries the number its PlanItem got
RECURSIVE FlushItems(_, _, _)
FlushItems(st, new_items, new_allocs) ==
  IF new_items = {} THEN st
  ELSE LET it == CHOOSE x \in new_items : \A y \in new_items : x.item_id <= y.item_id
           id == NextItemId(st.items)
           mine == {a \in new_allocs : a.plan_item_id = it.item_id}
       IN FlushItems([st EXCEPT
                        !.items = @ \cup {[it EXCEPT !.item_id = id]},
                        !.allocs = @ \cup {[a EXCEPT !.plan_item_id = id] : a \in mine}],
                     new_items \ {it}, new_allocs \ mine)

\* the INSERT of a PlanRun or of a ProductPlan whose primary key another
\* session has committed raises IntegrityError and the pass is rolled back
PassConflict(cur, snap, out, rc) ==
  \/ rc.is_new /\ rc.run_id \in cur.runs
  \/ (out.plans \ snap.plans) \cap cur.plans # {}

\* session.commit() of a pass that read the rows `snap` and left `out` in its
\* session, on the committed rows `cur`: the DELETEs of preemption, the
\* UPDATEs of Order.status and the INSERTs of the pass
CommitPass(cur, snap, out) ==
  LET del_ids == {it.item_id : it \in snap.items \ out.items}
      st1 == [orders |-> [o \in DOMAIN cur.orders |->
                            IF /\ o \in DOMAIN snap.orders
                               /\ out.orders[o].status # snap.orders[o].status
                            THEN [cur.orders[o] EXCEPT !.status = out.orders[o].status]
                            ELSE cur.orders[o]],
              runs |-> cur.runs \cup out.runs,
              profiles |-> cur.profiles \cup out.profiles,
              plans |-> (cur.plans \ (snap.plans \ out.plans))
                          \cup (out.plans \ snap.plans),
              items |-> {it \in cur.items : it.item_id \notin del_ids},
              allocs |-> cur.allocs \ (snap.allocs \ out.allocs),
              events |-> cur.events \cup out.events]
  IN FlushItems(st1, out.items \ snap.items, out.allocs \ snap.allocs)

\* steps 1-9 of a pass in the caller's session: the run, the allocations, the
\* line occupancy, the orders and the ProductPlans as committed at this moment
PlanRead(c) ==
  /\ ~plan_session[c].open
  /\ plan_session' = [plan_session EXCEPT
                        ![c] = [open |-> TRUE,
                                rc |-> get_or_create_plan_run(runs, clock),
                                snap |-> Db]]
  /\ lastOp' = "other"
  /\ UNCHANGED <<planVars, simVars, clock, sweep_session, cfgVars, call>>

\* the planning loop on the rows the session read, and session.commit()
PlanCommit(c) ==
  /\ plan_session[c].open
  /\ LET rc == plan_session[c].rc
         snap == plan_session[c].snap
         pass == PlanPass(snap, rc)
         out == CommitPass(Db, snap, pass)
     IN IF PassConflict(Db, snap, pass, rc)
        THEN UNCHANGED planVars
        ELSE /\ orders' = out.orders
             /\ runs' = out.runs
             /\ profiles' = out.profiles
             /\ plans' = out.plans
             /\ items' = out.items
             /\ allocs' = out.allocs
             /\ events' = out.events
  /\ plan_session' = [plan_session EXCEPT ![c] = NoSession]
  /\ lastOp' = "plan_commit"
  /\ UNCHANGED <<simVars, clock, sweep_session, cfgVars, call>>

NextPlanSnap ==
  \/ \E c \in PlanCallers : PlanRead(c)
  \/ \E c \in PlanCallers : PlanCommit(c)
  \/ ClockTick
  \/ CreateOrder

\* two callers of plan(), each reading in its own session before the other
\* commits, with orders arriving in between
SpecPlanSnap == Init /\ [][NextPlanSnap]_vars

(***************************************************************************)
(* the tick's sweep and an agent's sweep, each in its own session          *)
(***************************************************************************)
\* step_simulation_once up to, not including, its session.commit(): the module
\* globals are written at once, the PurchaseOrder writes wait in the session
TickBegin ==
  /\ ~sweep_session["tick"].open
  /\ ticks < MaxTicks
  /\ \E produced \in [Lines -> ProdChoices] :
       LET out == TickResult(produced)
       IN /\ sweep_session' = [sweep_session EXCEPT
                                 !["tick"] = [open |-> TRUE,
                                              delivered |-> out.delivered,
                                              new |-> out.new]]
          /\ inventory_state' = out.ledger
          /\ line_state' = out.line_state
          /\ simulation_running' = out.running
          /\ credits' = [id \in DOMAIN credits |->
                           credits[id] + Cardinality({po \in out.due : PoId(po) = id})]
          /\ plan_completed' = IF out.completed
                                THEN Min2(plan_completed + 1, MaxTicks + 1)
                                ELSE plan_completed
  /\ ticks' = ticks + 1
  /\ lastOp' = "tick_begin"
  /\ UNCHANGED <<planVars, pos, today, initial_inventory_by_material, bom_loaded,
                 loops, clock, plan_session, cfgVars, call>>

\* SupplyChainAgent._create_purchase_order: the sweep in the agent cycle's
\* session, up to the cycle's session.commit()
SweepBegin ==
  /\ ~sweep_session["supply_chain_agent"].open
  /\ sweep_session' = [sweep_session EXCEPT
                         !["supply_chain_agent"] =
                           [open |-> TRUE, delivered |-> {},
                            new |-> check_and_place_purchase_orders(orders, bom_loaded,
                                      initial_inventory_by_material, inventory_state,
                                      pos, today)]]
  /\ lastOp' = "sweep_begin"
  /\ UNCHANGED <<planVars, simVars, clock, plan_session, cfgVars, call>>

\* session.commit() of either caller of the sweep
SessionCommit(c) ==
  /\ c # "chip_delay"
  /\ sweep_session[c].open
  /\ pos' = CommitSession(pos, sweep_session[c].delivered, sweep_session[c].new)
  /\ sweep_session' = [sweep_session EXCEPT ![c] = NoSession]
  /\ lastOp' = "commit"
  /\ UNCHANGED <<planVars, today, inventory_state, initial_inventory_by_material,
                 bom_loaded, line_state, simulation_running, ticks, credits, plan_completed, loops,
                 clock, plan_session, cfgVars, call>>

NextSweepConc ==
  \/ TickBegin
  \/ SweepBegin
  \/ \E c \in SweepCallers : SessionCommit(c)
  \/ AdvanceDay
  \/ StartSimulation
  \/ Plan

\* the simulator's tick and the supply-chain agent sweeping concurrently
SpecSweepConc == Init /\ [][NextSweepConc]_vars

(***************************************************************************)
(* trigger_chip_delay in the worker thread of its request, beside the tick *)
(***************************************************************************)
\* trigger_chip_delay up to its first flush: the session loads the open
\* semiconductor PO with the earliest ETA and sets the new ETA and status on
\* its copy of the row (scenarios.py 167-220)
ChipDelaySelect ==
  /\ ~sweep_session["chip_delay"].open
  /\ \E po \in pos :
       /\ po.material_id \in SemiconductorIds
       /\ po.status # "DELIVERED"
       /\ \A other \in pos :
            (other.material_id \in SemiconductorIds /\ other.status # "DELIVERED")
              => po.eta_date <= other.eta_date
       /\ po.eta_date < MaxDay
       /\ sweep_session' = [sweep_session EXCEPT
                              !["chip_delay"] = [open |-> TRUE, po_id |-> PoId(po),
                                                 eta_date |-> po.eta_date + 2]]
  /\ lastOp' = "other"
  /\ UNCHANGED <<planVars, simVars, clock, plan_session, cfgVars, call>>

\* the flush and session.commit() of trigger_chip_delay: UPDATE ... SET
\* eta_date, status WHERE po_id, whatever the row holds by now
ChipDelayCommit ==
  /\ sweep_session["chip_delay"].open
  /\ LET w == sweep_session["chip_delay"]
     IN pos' = {IF PoId(po) = w.po_id
                THEN [po EXCEPT !.eta_date = w.eta_date, !.status = "DELAYED"]
                ELSE po : po \in pos}
  /\ sweep_session' = [sweep_session EXCEPT !["chip_delay"] = NoSession]
  /\ lastOp' = "other"
  /\ UNCHANGED <<planVars, today, inventory_state, initial_inventory_by_material,
                 bom_loaded, line_state, simulation_running, ticks, credits, plan_completed, loops,
                 clock, plan_session, cfgVars, call>>

NextDelayConc ==
  \/ Tick \/ Sweep \/ Expedite
  \/ ChipDelaySelect \/ ChipDelayCommit
  \/ AdvanceDay \/ StartSimulation \/ Plan

\* the simulator's tick and a chip-delay request running concurrently
SpecDelayConc == Init /\ [][NextDelayConc]_vars

(***************************************************************************)
(* Properties of the planning store                                        *)
(***************************************************************************)
AllocsOf(run_id, o) == {a \in allocs : a.run_id = run_id /\ a.order_id = o}

AllocatedQty(run_id, o) == SumQty(AllocsOf(run_id, o))

\* C1 (allocation bound): for every order and every run, the sum of the
\* order's OrderAllocation quantities in the run is at most the order's
\* quantity, whatever plan(), preemption, resume and order creation did.
C1_AllocationBound ==
  \A o \in DOMAIN orders : \A r \in runs : AllocatedQty(r, o) <= orders[o].quantity

\* an order split over two lines and allocated in full, and another one that
\* a shortfall left partially allocated
C1_Witness ==
  /\ lastOp = "plan"
  /\ \E o \in DOMAIN orders : \E r \in runs :
       /\ Cardinality(AllocsOf(r, o)) = 2
       /\ AllocatedQty(r, o) = orders[o].quantity
  /\ \E o \in DOMAIN orders : \E r \in runs :
       /\ AllocatedQty(r, o) > 0
       /\ AllocatedQty(r, o) < orders[o].quantity

\* the spike orders a pass started now would process: OPEN and not yet
\* covered by their allocations in the run
ProcessedSpikes ==
  LET rc == get_or_create_plan_run(runs, clock)
  IN {s \in DOMAIN orders :
        /\ orders[s].is_spike
        /\ orders[s].status = "OPEN"
        /\ s \notin get_already_allocated_orders(orders, allocs, rc.run_id)}

\* the non-spike OPEN / ON_HOLD orders of a product with a processed spike
Competitors ==
  {o \in DOMAIN orders :
     /\ ~orders[o].is_spike
     /\ orders[o].status \in {"OPEN", "ON_HOLD"}
     /\ \E s \in ProcessedSpikes : s # o /\ orders[s].product_id = orders[o].product_id}

\* C2 (preemption result): at the end of a plan() pass that processes an OPEN
\* spike order of product P, every non-spike order of P that was OPEN or
\* ON_HOLD is ON_HOLD and has no OrderAllocation, PlanItem or ProductPlan.
C2_PreemptionResult ==
  [][lastOp' = "plan" =>
       \A o \in Competitors :
         /\ orders'[o].status = "ON_HOLD"
         /\ \A a \in allocs' : a.order_id # o
         /\ \A it \in items' : it.order_id # o
         /\ \A pl \in plans' : pl[2] # o]_vars

\* C3 (idempotent re-plan): right after a plan() pass, a second pass returns
\* the same run id and leaves orders, ProductPlans, PlanItems and
\* OrderAllocations exactly as the first pass left them.
C3_IdempotentReplan ==
  lastOp = "plan" =>
    /\ get_or_create_plan_run(runs, clock + 1).run_id = SetMax(runs)
    /\ PlanPass(Db, get_or_create_plan_run(runs, clock + 1)) = Db

(***************************************************************************)
(* Properties of the ledger and the purchase orders                        *)
(***************************************************************************)
IsOpen(po) == po.status # "DELIVERED"

NoCredits == \A id \in DOMAIN credits : credits[id] = 0

\* C5 (single open PO per material, sequential): after any sequence of
\* ticks, sweeps, chip delays and expedites that each run alone, no two
\* PurchaseOrders of one material are both other than DELIVERED.
C5_SingleOpenPO ==
  \A a, b \in pos :
    (a.material_id = b.material_id /\ IsOpen(a) /\ IsOpen(b)) => a = b

\* a material whose first PO was delivered and for which the sweep has placed
\* the next one, while a delayed PO of another material is still open
C5_Witness ==
  /\ \E a, b \in pos : a.material_id = b.material_id /\ ~IsOpen(a) /\ IsOpen(b)
  /\ \E c \in pos : c.status = "DELAYED"

\* C7 (delivery exactness): whatever the ticks did, a PurchaseOrder's quantity
\* has been added to the ledger once if its persisted status is DELIVERED and
\* not at all if it is not.
C7_DeliveredOnce ==
  \A po \in pos : credits[PoId(po)] = IF IsOpen(po) THEN 0 ELSE 1

\* C8 (non-negative stock): the ledger stock of every material is >= 0 after
\* any sequence of ticks, deliveries and restarts.
C8_NonNegativeStock ==
  \A m \in DOMAIN inventory_state : inventory_state[m] >= 0

\* production alone (no delivery since the start) asked for more of M1 than
\* the ledger held: three units of PA against a stock of five
C8_Witness ==
  /\ lastOp = "tick"
  /\ NoCredits
  /\ "LB1" \in DOMAIN line_state
  /\ line_state["LB1"].units_completed_int = 0
  /\ line_state["LA1"].units_completed_int + line_state["LA2"].units_completed_int
       = DBStock["M1"] \div 2 + 1
  /\ inventory_state["M1"] = 0

\* the PurchaseOrder rows a step added
PlacedBy(before, after, m) ==
  {po \in after : po.material_id = m /\ \A old \in before : PoId(old) # PoId(po)}

\* C9 (replenishment sweep): in any state, a sweep creates for every material
\* with an inventory row, a positive remaining requirement r and no open PO
\* exactly one PO with quantity r, eta today + lead time and status PLACED;
\* a sweep repeated at once would create nothing.
C9_SweepPlaces ==
  LET new == check_and_place_purchase_orders(orders, bom_loaded,
               initial_inventory_by_material, inventory_state, pos, today)
      after == CommitSession(pos, {}, new)
  IN /\ \A m \in InvMaterials :
          LET r == remaining_requirement(orders, bom_loaded,
                     initial_inventory_by_material, inventory_state, m)
          IN (r > 0 /\ ~existing_po(pos, m)) =>
               PlacedBy(pos, after, m) =
                 {[material_id |-> m, order_date |-> today, quantity |-> r,
                   eta_date |-> today + LeadTime[m], status |-> "PLACED"]}
     /\ check_and_place_purchase_orders(orders, bom_loaded,
          initial_inventory_by_material, inventory_state, after, today) = {}

\* the ledger after the production of the lines, computed in closed form from
\* the integer units each line gained: stock := max(0, stock - d * qty_per_unit)
RECURSIVE ClosedFormBom(_, _, _, _)
ClosedFormBom(ledger, bl, i, d) ==
  IF i > Len(bl) THEN ledger
  ELSE ClosedFormBom(
         IF d = 0 THEN ledger
         ELSE DictPut(ledger, bl[i].material_id,
                      Max2(0, DictGet(ledger, bl[i].material_id, 0)
                                - d * bl[i].quantity_per_unit)),
         bl, i + 1, d)

RECURSIVE ClosedFormLines(_, _, _, _)
ClosedFormLines(ledger, i, before, after) ==
  IF i > Len(LineSeq) THEN ledger
  ELSE LET l == LineSeq[i]
           d == IF l \in DOMAIN before
                THEN after[l].units_completed_int - before[l].units_completed_int
                ELSE 0
       IN ClosedFormLines(
            ClosedFormBom(ledger, bom_by_product(bom_loaded, LineProduct[l]), 1, d),
            i + 1, before, after)

\* C10 (consumption): a tick in which a line building P gains d integer units
\* sets, through that production, the stock of every material M of P's BOM to
\* max(0, stock[M] - d * qty_per_unit) and leaves every other stock alone.
C10_Consumption ==
  [][(lastOp' = "tick" /\ Len(orders) > 0) =>
       inventory_state' =
         ClosedFormLines(update_purchase_orders(pos, inventory_state, today).ledger,
                         1, line_state, line_state')]_vars

\* one tick in which LA1 gained two units of PA and LB1 one unit of PB: M1 went
\* 5 -> 5 - 2 * 2 = 1 -> 1 - 1 * 1 = 0, and M2 went 1 -> 0
C10_Witness ==
  /\ lastOp = "tick"
  /\ NoCredits
  /\ "LA1" \in DOMAIN line_state
  /\ line_state["LA1"].units_completed_int = 2
  /\ line_state["LA2"].units_completed_int = 0
  /\ line_state["LB1"].units_completed_int = 1
  /\ inventory_state["M1"] = 0
  /\ inventory_state["M2"] = 0

(***************************************************************************)
(* Properties of interleaved callers                                       *)
(***************************************************************************)
\* C4 (one BASELINE run): at most one PlanRun with scenario BASELINE exists,
\* however the plan() passes of different call sites interleave.
C4_OneBaselineRun == Cardinality(runs) <= 1

OpenPOs(m) == {po \in pos : po.material_id = m /\ IsOpen(po)}

\* C6 (single open PO per material, concurrent): when the tick's sweep and an
\* agent's sweep interleave, each in its own session, no material ever has two
\* PurchaseOrders that are not DELIVERED.
C6_SingleOpenPOInterleaved == \A m \in Materials : Cardinality(OpenPOs(m)) <= 1

(***************************************************************************)
(* Properties of the capacity-inventory allocator                          *)
(***************************************************************************)
\* the session state of a pass at the moment order `oid` is planned
RECURSIVE StateBefore(_, _, _, _, _)
StateBefore(st, run_id, orders_to_plan, i, oid) ==
  IF i > Len(orders_to_plan) \/ orders_to_plan[i] = oid THEN st
  ELSE StateBefore(PlanOrder(st, run_id, orders_to_plan[i]), run_id,
                   orders_to_plan, i + 1, oid)

SeqToSet(q) == {q[i] : i \in 1..Len(q)}

\* the orders a pass over the current store reaches with no ProductPlan yet
PlannedNow(rc) ==
  LET inp == PassInput(Db, rc)
  IN {oid \in SeqToSet(inp.orders_to_plan) : <<rc.run_id, oid>> \notin inp.st.plans}

HorizonDays(o) == Max2(1, o.dispatch_date - o.start_date)

RECURSIVE SumCapH(_, _)
SumCapH(S, horizon_days) ==
  IF S = {} THEN 0
  ELSE LET l == CHOOSE x \in S : TRUE
       IN Max2(0, line_rows[l].daily_capacity * line_rows[l].oee_pct * horizon_days)
          + SumCapH(S \ {l}, horizon_days)

\* floor(sum over the product's lines of dailyCapacity x OEE x horizonDays)
CapacityFloor(o) ==
  SumCapH({l \in Lines : LineProduct[l] = o.product_id}, HorizonDays(o)) \div 100

\* min over BOM entries of floor((stock - planned_usage) / qtyPerUnit), not below 0
InventoryLimit(p, usage) ==
  LET rows == {i \in 1..Len(BomSeq) :
                 BomSeq[i].product_id = p /\ BomSeq[i].quantity_per_unit > 0}
      units(i) == Max2(0, (StockGet(DBStock, BomSeq[i].material_id)
                             - usage[BomSeq[i].material_id])
                          \div BomSeq[i].quantity_per_unit)
  IN IF rows = {} THEN Unbounded
     ELSE CHOOSE u \in {units(i) : i \in rows} : \A i \in rows : u <= units(i)

\* C11 (allocation feasibility): every order a plan() pass allocates gets at
\* most the floor of its lines' capacity over its horizon, and at most the
\* inventory limit computed from the stock less the usage the pass had planned
\* when it reached the order.
C11_AllocationFeasible ==
  [][lastOp' = "plan" =>
       LET rc == get_or_create_plan_run(runs, clock)
           inp == PassInput(Db, rc)
       IN \A oid \in PlannedNow(rc) :
            LET before == StateBefore(inp.st, rc.run_id, inp.orders_to_plan, 1, oid)
                got == SumQty({a \in allocs' : a.run_id = rc.run_id /\ a.order_id = oid})
            IN /\ got <= CapacityFloor(orders[oid])
               /\ got <= InventoryLimit(orders[oid].product_id, before.usage)]_vars

\* a pass gave the first PA order all the stock allows, the PB order what was
\* left, and a third order, for PA, nothing
C11_Witness ==
  /\ lastOp = "plan"
  /\ Len(orders) = 3
  /\ orders[3].product_id = "PA"
  /\ runs # {}
  /\ AllocatedQty(SetMax(runs), 1) = 2
  /\ AllocatedQty(SetMax(runs), 2) = 1
  /\ <<SetMax(runs), 3>> \in plans
  /\ AllocsOf(SetMax(runs), 3) = {}
  /\ <<"INVENTORY_SHORTFALL", 3>> \in events

\* the typed events one pass over the current store logs
PassEvents(rc) == PlanPass([Db EXCEPT !.events = {}], rc).events

\* C12 (split conservation): whenever a pass plans an order whose
\* targetQty = min(quantity, floor(total capacity), inventory limit) is
\* positive, the quantities of its lines sum to exactly targetQty; when capacity
\* and inventory both cover the order it is allocated in full and the pass logs
\* neither CAPACITY_SHORTFALL nor INVENTORY_SHORTFALL for it.
C12_SplitConservation ==
  [][lastOp' = "plan" =>
       LET rc == get_or_create_plan_run(runs, clock)
           inp == PassInput(Db, rc)
       IN \A oid \in PlannedNow(rc) :
            LET o == orders[oid]
                before == StateBefore(inp.st, rc.run_id, inp.orders_to_plan, 1, oid)
                cap == CapacityFloor(o)
                inv == InventoryLimit(o.product_id, before.usage)
                target == Min2(o.quantity, Min2(cap, inv))
                got == SumQty({a \in allocs' : a.run_id = rc.run_id /\ a.order_id = oid})
            IN target > 0 =>
                 /\ got = target
                 /\ (cap >= o.quantity /\ inv >= o.quantity) =>
                       /\ got = o.quantity
                       /\ <<"CAPACITY_SHORTFALL", oid>> \notin PassEvents(rc)
                       /\ <<"INVENTORY_SHORTFALL", oid>> \notin PassEvents(rc)]_vars

\* two equal PA lines: an order for one unit has two shares of one half, both
\* rounded to zero, and gets its unit from the top-up, with no shortfall event
C12_Witness ==
  /\ lastOp = "plan"
  /\ line_rows["LA1"] = line_rows["LA2"]
  /\ Len(orders) = 3
  /\ orders[3].product_id = "PA"
  /\ orders[3].quantity = 1
  /\ runs # {}
  /\ AllocatedQty(SetMax(runs), 3) = 1
  /\ AllocatedQty(SetMax(runs), 1) = 2
  /\ Cardinality(AllocsOf(SetMax(runs), 1)) = 2
  /\ <<"CAPACITY_SHORTFALL", 3>> \notin events
  /\ <<"INVENTORY_SHORTFALL", 3>> \notin events

\* C13 (line capacity): every PlanItem's planned quantity is at most the
\* capacity of its own line over the order's horizon, dailyCapacity x OEE x
\* horizonDays; rounding and top-up never push a line above it.
C13_ItemWithinLineCapacity ==
  \A it \in items :
    it.planned_qty * 100
      <= line_rows[it.line_id].daily_capacity * line_rows[it.line_id].oee_pct
           * HorizonDays(orders[it.order_id])

\* C17 (line bookings): per line and run, the PlanItem intervals are pairwise
\* non-overlapping and chronological in creation order: an item created later
\* starts no earlier than every earlier item of the line ends, after any
\* sequence of plan() passes, preemptions and resumes.
C17_LineBookingsOrdered ==
  \A a, b \in items :
    (a.line_id = b.line_id /\ a.run_id = b.run_id /\ a.item_id < b.item_id)
      => /\ a.start_ts <= a.end_ts
         /\ a.end_ts <= b.start_ts

\* after a preemption a line holds two bookings of the run back to back
C17_Witness ==
  /\ lastOp = "plan"
  /\ \E o \in DOMAIN orders : orders[o].status = "ON_HOLD"
  /\ \E a, b \in items :
       /\ a.line_id = b.line_id /\ a.run_id = b.run_id
       /\ a.item_id < b.item_id
       /\ a.start_ts < a.end_ts
       /\ a.end_ts = b.start_ts
       /\ b.start_ts < b.end_ts

\* the committed rows without order `oid`: out of planning, and none of its
\* plans, bookings and allocations
Absent(db, oid) ==
  [db EXCEPT !.orders[oid].status = "ABSENT",
             !.plans = {pl \in db.plans : pl[2] # oid},
             !.items = {it \in db.items : it.order_id # oid},
             !.allocs = {a \in db.allocs : a.order_id # oid}]

\* what a store holds for an order in a run: its allocations and its bookings
PlannedFor(db, run_id, o) ==
  [allocs |-> {<<a.line_id, a.allocated_qty>> :
                 a \in {x \in db.allocs : x.run_id = run_id /\ x.order_id = o}},
   items |-> {<<it.line_id, it.planned_qty, it.start_ts, it.end_ts>> :
                it \in {x \in db.items : x.run_id = run_id /\ x.order_id = o}}]

NoLine(o) == {l \in Lines : LineProduct[l] = o.product_id} = {}

ZeroCapacity(o) ==
  SumCapH({l \in Lines : LineProduct[l] = o.product_id}, HorizonDays(o)) = 0

\* C18 (planning failure policy): an order a pass reaches whose product has no
\* line, zero capacity or zero inventory headroom gets the typed event of its
\* failure and no PlanItem or OrderAllocation in that pass, and the pass plans
\* every other order exactly as it would with the failing order absent.
C18_FailurePolicy ==
  [][lastOp' = "plan" =>
       LET rc == get_or_create_plan_run(runs, clock)
           inp == PassInput(Db, rc)
           after == [Db EXCEPT !.allocs = allocs', !.items = items']
       IN \A oid \in PlannedNow(rc) :
            LET o == orders[oid]
                before == StateBefore(inp.st, rc.run_id, inp.orders_to_plan, 1, oid)
                no_headroom == InventoryLimit(o.product_id, before.usage) <= 0
                ref == PlanPass(Absent(Db, oid), rc)
            IN (NoLine(o) \/ ZeroCapacity(o) \/ no_headroom) =>
                 /\ <<(IF NoLine(o) THEN "NO_LINE_FOR_PRODUCT"
                        ELSE IF ZeroCapacity(o) THEN "CAPACITY_SHORTFALL"
                        ELSE "INVENTORY_SHORTFALL"), oid>> \in PassEvents(rc)
                 /\ PlannedFor(after, rc.run_id, oid) = [allocs |-> {}, items |-> {}]
                 /\ \A other \in DOMAIN orders \ {oid} :
                      PlannedFor(after, rc.run_id, other)
                        = PlannedFor(ref, rc.run_id, other)]_vars

(***************************************************************************)
(* Properties of start, stop and the tick loops                            *)
(***************************************************************************)

LiveLoops == {t \in LoopTasks : loops[t] # "none"}

\* C14 (single tick loop): whatever start and stop calls are made, and
\* wherever the previous loop is when they are made, at most one
\* simulation_loop task is alive.
C14_SingleLoop == Cardinality(LiveLoops) <= 1

\* C15 (start is idempotent): a call of start_simulation made while the
\* simulation is running returns "already_running" and leaves the ledger, the
\* seed stock, the per-line counters and the set of tick loops as they were;
\* "started" is returned only when the simulation was not running.
C15_StartIdempotent ==
  [][/\ lastOp' = "already_running" =>
          /\ simulation_running /\ simulation_running'
          /\ UNCHANGED <<inventory_state, initial_inventory_by_material,
                         line_state, loops, bom_loaded, pos>>
     /\ (lastOp' = "started" /\ lastOp # "started") => ~simulation_running]_vars

\* a start call answered "already_running" in a store where a fresh start
\* would have shown: stock consumed, units built
C15_Witness ==
  /\ lastOp = "already_running"
  /\ inventory_state # LoadedInventory
  /\ line_state # InitialLineState
  /\ LiveLoops # {}

\* C16 (stop is cooperative): a stop clears the running flag and nothing else;
\* a tick in flight completes; no task begins a tick once it has seen the flag
\* cleared; and unless a start follows, every task returns.
C16_StopCooperative ==
  /\ [][(simulation_running /\ ~simulation_running' /\ lastOp' # "tick") =>
          UNCHANGED <<planVars, pos, inventory_state, initial_inventory_by_material,
                      bom_loaded, line_state, ticks, loops>>]_vars
  /\ [][\A t \in LoopTasks :
          (loops[t] # "tick" /\ loops'[t] = "tick") => simulation_running]_vars
  /\ \A t \in LoopTasks : (loops[t] = "tick") ~> (loops[t] = "sleep")
  /\ (~simulation_running) ~> (simulation_running \/ LiveLoops = {})

\* the flag cleared while a task is in the middle of a tick
C16_Witness ==
  /\ ~simulation_running
  /\ \E t \in LoopTasks : loops[t] = "tick"

\* a tick with output `produced` reaches one of its session.commit() calls
\* and the commit succeeds
TickCommits(produced) ==
  /\ Len(orders) # 0
  /\ runs # {}
  /\ {pr \in profiles : pr[1] = SetMax(runs)} # {}
  /\ ~PkConflict(pos, TickResult(produced).new)

\* C19 (a tick is atomic): a tick that returns before its commit, or whose
\* commit fails, leaves the ledger, the per-line counters and the
\* PurchaseOrder rows as it found them.
C19_TickAtomic ==
  [][lastOp' = "tick" =>
       \A produced \in [Lines -> ProdChoices] :
         LET out == TickResult(produced)
         IN (/\ inventory_state' = out.ledger
             /\ line_state' = out.line_state
             /\ pos' = CommitSession(pos, out.delivered, out.new)
             /\ ~TickCommits(produced))
            => UNCHANGED <<inventory_state, line_state, pos>>]_vars

(***************************************************************************)
(* Properties of the agents                                                *)
(***************************************************************************)

\* C20 (dry-run): with WRITE_ENABLED = False no agent cycle, whatever its
\* decision, changes orders, plan runs, plans, plan items, allocations,
\* purchase orders or pending actions.
C20_DryRunWritesNothing ==
  [][(~write_enabled /\ lastOp' = "agent") =>
       UNCHANGED <<orders, runs, profiles, plans, items, allocs, pos,
                   pending_actions>>]_vars

(***************************************************************************)
(* Properties of get_line_available_start                                  *)
(***************************************************************************)

CallResult == CHOOSE r \in call.result : TRUE

\* C21 (next available start): the call returns desired_start when the line
\* has no bookings and otherwise the later of desired_start and the latest
\* end among the bookings; the result is never before the end of any booking.
C21_AppendAfterLatest ==
  (call.fn = "get_line_available_start" /\ call.result # {}) =>
    LET ends == {occ[2] : occ \in call.line_occupancy}
    IN /\ ends = {} => CallResult = call.desired_start
       /\ ends # {} => CallResult = Max2(call.desired_start, SetMax(ends))
       /\ \A e \in ends : CallResult >= e

\* a line with two bookings and room between them for the desired start
C21_Witness ==
  /\ call.fn = "get_line_available_start"
  /\ call.result # {}
  /\ \E a \in call.line_occupancy, b \in call.line_occupancy :
       /\ a[2] <= call.desired_start
       /\ call.desired_start < b[1]
       /\ CallResult = b[2]

(***************************************************************************)
(* Properties of the planning order, of preemption and of resume           *)
(***************************************************************************)

\* C22 (spikes first): in every pass, whatever the priorities, dispatch dates
\* and start dates of the orders, every spike order of the pass is planned
\* before every regular order of the pass.
C22_SpikesFirst ==
  [][lastOp' = "plan" =>
       LET seq == PassInput(Db, get_or_create_plan_run(runs, clock)).orders_to_plan
       IN \A i \in 1..Len(seq), j \in 1..Len(seq) :
            (i < j /\ orders[seq[j]].is_spike) => orders[seq[i]].is_spike]_vars

\* the session state in which the pass preempts for its k-th spike order
RECURSIVE PreemptBefore(_, _, _, _)
PreemptBefore(st, run_id, spike_orders, k) ==
  IF k = 1 THEN st
  ELSE handle_spike_preemption(PreemptBefore(st, run_id, spike_orders, k - 1),
                               run_id, spike_orders[k - 1])

\* the regular OPEN / ON_HOLD orders of the spike order's product
CompetitorsOf(st, spike_id) ==
  {o \in DOMAIN st.orders :
     /\ o # spike_id
     /\ st.orders[o].product_id = st.orders[spike_id].product_id
     /\ ~st.orders[o].is_spike
     /\ st.orders[o].status \in {"OPEN", "ON_HOLD"}}

\* the rows of order o: its Order row, ProductPlans, PlanItems, OrderAllocations
RowsOf(st, o) ==
  [ord |-> st.orders[o],
   plans |-> {pl \in st.plans : pl[2] = o},
   items |-> {it \in st.items : it.order_id = o},
   allocs |-> {a \in st.allocs : a.order_id = o}]

PreemptionFrame(before, after, spike_id) ==
  /\ DOMAIN after.orders = DOMAIN before.orders
  /\ \A o \in DOMAIN before.orders \ CompetitorsOf(before, spike_id) :
       RowsOf(after, o) = RowsOf(before, o)
  /\ CompetitorsOf(before, spike_id) = {} => after = before

\* C23 (preemption frame): each preemption of a plan() pass, for a spike order
\* of product P, changes rows of the regular OPEN / ON_HOLD orders of P only:
\* the Order row, ProductPlans, PlanItems and OrderAllocations of the spike
\* order, of other spike orders, of COMPLETED orders and of orders of other
\* products stay as they were, and with no such competitor the whole session
\* state stays as it was.
C23_PreemptionFrame ==
  LET rc == get_or_create_plan_run(runs, clock)
      inp == PassInput(Db, rc)
  IN \A k \in 1..Len(inp.spike_orders) :
       LET before == PreemptBefore(inp.st0, rc.run_id, inp.spike_orders, k)
       IN PreemptionFrame(before,
            handle_spike_preemption(before, rc.run_id, inp.spike_orders[k]),
            inp.spike_orders[k])

\* a pass about to preempt for a spike order whose product has an allocated
\* competitor, beside a COMPLETED regular order of that product
C23_Witness ==
  LET rc == get_or_create_plan_run(runs, clock)
      inp == PassInput(Db, rc)
  IN \E k \in 1..Len(inp.spike_orders) :
       LET s == inp.spike_orders[k]
       IN /\ \E c \in CompetitorsOf(inp.st0, s) : \E a \in allocs : a.order_id = c
          /\ \E o \in DOMAIN orders :
               /\ orders[o].product_id = orders[s].product_id
               /\ ~orders[o].is_spike
               /\ orders[o].status = "COMPLETED"

\* C24 (resume frame): a resume for product P sets the ON_HOLD regular orders
\* of P to OPEN and changes no other Order row - none of another product, no
\* spike order - and no PlanRun, ProductPlan, PlanItem or OrderAllocation.
C24_ResumeFrame ==
  [][lastOp' = "resume" =>
       /\ \E p \in Products :
            /\ DOMAIN orders' = DOMAIN orders
            /\ \A o \in DOMAIN orders :
                 orders'[o] =
                   IF /\ orders[o].product_id = p
                      /\ orders[o].status = "ON_HOLD"
                      /\ ~orders[o].is_spike
                   THEN [orders[o] EXCEPT !.status = "OPEN"]
                   ELSE orders[o]
       /\ UNCHANGED <<runs, profiles, plans, items, allocs>>]_vars

\* after a resume: a regular order back to OPEN, still without allocations,
\* beside an allocated spike order and a held spike order of its product
C24_Witness ==
  /\ lastOp = "resume"
  /\ \E o \in DOMAIN orders :
       /\ ~orders[o].is_spike
       /\ orders[o].status = "OPEN"
       /\ \A a \in allocs : a.order_id # o
       /\ \E s \in DOMAIN orders :
            /\ orders[s].is_spike
            /\ orders[s].product_id = orders[o].product_id
            /\ \E a \in allocs : a.order_id = s
       /\ \E s \in DOMAIN orders :
            /\ orders[s].is_spike
            /\ orders[s].product_id = orders[o].product_id
            /\ orders[s].status = "ON_HOLD"

(***************************************************************************)
(* Properties of purchase orders and of production                         *)
(***************************************************************************)

\* C25 (purchase-order lifecycle): a DELIVERED PurchaseOrder row keeps its
\* status, eta and quantity whatever delivery, chip delay, expedite or
\* placement runs afterwards, and a row becomes DELIVERED only in a tick, with
\* its eta at or before today.
C25_DeliveredTerminal ==
  [][/\ \A po \in pos : po.status = "DELIVERED" => po \in pos'
     /\ \A po \in pos' :
          (po.status = "DELIVERED" /\ po \notin pos) =>
            (lastOp' = "tick" /\ po.eta_date <= today)]_vars

\* C26 (delivery response): after every tick of a running simulation no
\* PurchaseOrder row with eta <= today is left in a status other than
\* DELIVERED, whether or not orders, a PlanRun or LineShiftProfiles exist.
C26_DueDelivered ==
  [][(simulation_running /\ lastOp' = "tick") =>
       \A po \in pos' : po.eta_date <= today => po.status = "DELIVERED"]_vars

TotalReached ==
  /\ Len(orders) # 0
  /\ TotalCompleted(line_state, DOMAIN line_state) >= TotalPlanned(orders, 1) * UnitScale

\* a step in which some line builds a positive amount
Produces ==
  /\ DOMAIN line_state' = DOMAIN line_state
  /\ TotalCompleted(line_state', DOMAIN line_state) >
       TotalCompleted(line_state, DOMAIN line_state)

PlanCompleted == ~simulation_running /\ TotalReached /\ plan_completed = 1

\* C28 (completion): with the loop left running and no order added, if lines
\* keep producing then the completed total reaches the ordered total; the tick
\* that finds it reached logs PLAN_COMPLETED, once, clears the running flag and
\* builds and consumes nothing; and nothing is built or consumed afterwards
\* until a restart.
C28_Completion ==
  /\ [](plan_completed <= 1)
  /\ [][(simulation_running /\ ~simulation_running') =>
          /\ plan_completed' = 1
          /\ line_state' = line_state
          /\ DOMAIN inventory_state' = DOMAIN inventory_state
          /\ \A m \in DOMAIN inventory_state : inventory_state'[m] >= inventory_state[m]]_vars
  /\ [][(~simulation_running /\ ~simulation_running') =>
          UNCHANGED <<line_state, inventory_state>>]_vars
  /\ ([]<><<Produces>>_vars) => (simulation_running ~> TotalReached)
  /\ (simulation_running /\ TotalReached) ~> PlanCompleted

\* the tick that found the total reached has just returned
C28_Witness == lastOp = "tick" /\ PlanCompleted

RECURSIVE SumCompletedQty(_)
SumCompletedQty(rows) ==
  IF rows = {} THEN 0
  ELSE LET r == CHOOSE x \in rows : TRUE
       IN r.completed_qty + SumCompletedQty(rows \ {r})

\* C29 (attribution): when a line with at least one OrderAllocation builds
\* d > 0 new units, the units that update_order_progress books on the line's
\* orders sum to d.
C29_AttributionSums ==
  (/\ call.fn = "update_order_progress"
   /\ call.result # {}
   /\ Len(call.allocations) >= 1
   /\ call.units_produced > 0)
  => SumCompletedQty(CallResult) = call.units_produced

\* the quantity allocated to a line in the latest run
AllocatedToLine(l) ==
  IF runs = {} THEN 0
  ELSE SumQty({a \in allocs : a.run_id = SetMax(runs) /\ a.line_id = l})

\* C30 (production follows the allocation): a tick that raises a line's
\* integer units completed leaves them within the quantity allocated to that
\* line in the current run; a line without allocations builds nothing.
C30_WithinAllocation ==
  [][lastOp' = "tick" =>
       \A l \in DOMAIN line_state :
         (/\ l \in DOMAIN line_state'
          /\ line_state'[l].units_completed_int > line_state[l].units_completed_int)
         => line_state'[l].units_completed_int <= AllocatedToLine(l)]_vars

(***************************************************************************)
(* Properties of the planner beside the simulator                          *)
(***************************************************************************)

\* C31 (the planner reads the ledger): whatever ticks and deliveries have
\* happened, the per-material stock snapshot a plan() pass takes equals the
\* stock the simulator's ledger holds at that moment.
C31_PlannerReadsLedger ==
  \A m \in DOMAIN inventory_state :
    StockGet(stock_by_material, m) = inventory_state[m]

\* C32 (ledger serialization): a start_simulation that re-initialises the
\* ledger, the seed stock and the per-line counters finds no tick in flight,
\* so no tick that began on the previous generation of the ledger and the
\* counters writes into the new one.
C32_LedgerSerialized ==
  [][(~simulation_running /\ simulation_running') =>
       \A t \in LoopTasks : loops[t] # "tick"]_vars

\* half-open bookings [start_ts, end_ts) of two PlanItems share an instant
ItemsOverlap(a, b) ==
  /\ a.start_ts < a.end_ts /\ b.start_ts < b.end_ts
  /\ a.start_ts < b.end_ts /\ b.start_ts < a.end_ts

\* the booking discipline and the allocation bound within each run
PerRunBookings ==
  /\ \A a, b \in items :
       (a.line_id = b.line_id /\ a.run_id = b.run_id /\ a.item_id # b.item_id)
         => ~ItemsOverlap(a, b)
  /\ \A o \in DOMAIN orders : \A r \in runs : AllocatedQty(r, o) <= orders[o].quantity

\* C33 (concurrent planning): when two plan() passes interleave, each reading
\* in its own session before the other commits, the committed PlanItems of a
\* line are pairwise non-overlapping and every order's OrderAllocation
\* quantities add up to at most the order's quantity.
C33_ConcurrentPlanning ==
  /\ \A a, b \in items :
       (a.line_id = b.line_id /\ a.item_id # b.item_id) => ~ItemsOverlap(a, b)
  /\ \A o \in DOMAIN orders :
       SumQty({a \in allocs : a.order_id = o}) <= orders[o].quantity

\* C34 (the running flag reflects the loop): whenever simulation_running is
\* True, so that start would answer "already_running", a simulation_loop task
\* is scheduled, inside a tick or asleep; no tick, raising or not, leaves the
\* flag set with no task to tick again.
C34_FlagHasLoop == simulation_running => LiveLoops # {}

(***************************************************************************)
(* Properties of repeated plan() passes                                    *)
(***************************************************************************)
ItemsOf(its, run_id, o) == {it \in its : it.run_id = run_id /\ it.order_id = o}

AllocsIn(als, run_id, o) == {a \in als : a.run_id = run_id /\ a.order_id = o}

UnfulfilledSpikes(r) ==
  {s \in DOMAIN orders :
     /\ orders[s].is_spike /\ orders[s].status = "OPEN"
     /\ AllocatedQty(r, s) < orders[s].quantity}

\* the non-spike, non-COMPLETED orders of the product of such a spike
UnderSpike(r) ==
  {o \in DOMAIN orders :
     /\ ~orders[o].is_spike /\ orders[o].status # "COMPLETED"
     /\ \E s \in UnfulfilledSpikes(r) : orders[s].product_id = orders[o].product_id}

\* C36 (re-hold under an unfulfilled spike): from every state in which an
\* OPEN spike order of product P is not fully allocated in the run, a plan()
\* pass ends with every non-spike, non-COMPLETED order of P ON_HOLD; in
\* particular the pass that follows a resume puts the resumed orders of P
\* back ON_HOLD.
C36_ReHold ==
  /\ [](LET rc == get_or_create_plan_run(runs, clock)
            out == PlanPass(Db, rc)
        IN \A o \in UnderSpike(rc.run_id) : out.orders[o].status = "ON_HOLD")
  /\ [][(lastOp = "resume" /\ lastOp' = "plan")
          => \A o \in UnderSpike(get_or_create_plan_run(runs, clock).run_id) :
               orders'[o].status = "ON_HOLD"]_vars

\* a pass has left a spike order without its quantity and a regular order of
\* the same product ON_HOLD
C36_Witness ==
  /\ lastOp = "plan"
  /\ \E r \in runs : \E o \in UnderSpike(r) :
       /\ orders[o].status = "ON_HOLD"
       /\ \E s \in UnfulfilledSpikes(r) :
            /\ orders[s].product_id = orders[o].product_id
            /\ <<r, s>> \in plans

(***************************************************************************)
(* Properties of the stored plan                                           *)
(***************************************************************************)
\* C37 (plan referential integrity): in every committed state each
\* OrderAllocation references an existing PlanItem of the same line, product
\* and quantity, whose ProductPlan exists and is the plan of the allocation's
\* run and order, and each PlanItem is referenced by exactly one
\* OrderAllocation: preemption leaves no orphan PlanItem or OrderAllocation.
C37_PlanIntegrity ==
  /\ \A a \in allocs :
       \E it \in items :
         /\ it.item_id = a.plan_item_id
         /\ it.line_id = a.line_id
         /\ it.product_id = a.product_id
         /\ it.planned_qty = a.allocated_qty
         /\ it.run_id = a.run_id /\ it.order_id = a.order_id
         /\ <<it.run_id, it.order_id>> \in plans
  /\ \A it \in items :
       Cardinality({a \in allocs : a.plan_item_id = it.item_id}) = 1
  /\ \A x, y \in items : x.item_id = y.item_id => x = y

\* after a pass with a preemption: an order ON_HOLD, an order with two
\* PlanItems, and a PlanItem whose number is not the count of the PlanItems
\* (rows have been deleted)
C37_Witness ==
  /\ lastOp = "plan"
  /\ \E o \in DOMAIN orders : orders[o].status = "ON_HOLD"
  /\ \E x, y \in items : x.order_id = y.order_id /\ x.item_id # y.item_id
  /\ \E it \in items : it.item_id > Cardinality(items)

(***************************************************************************)
(* Properties of the planning-time reservation of material                 *)
(***************************************************************************)
\* quantity_per_unit of material m in the BOM of product p, where positive
QtyPerUnit(p, m) ==
  LET rows == {i \in 1..Len(BomSeq) :
                 /\ BomSeq[i].product_id = p /\ BomSeq[i].material_id = m
                 /\ BomSeq[i].quantity_per_unit > 0}
  IN IF rows = {} THEN 0 ELSE BomSeq[CHOOSE i \in rows : TRUE].quantity_per_unit

\* sum over the orders in S of allocated quantity x quantity per unit of m
RECURSIVE Reserved(_, _, _, _, _)
Reserved(ords, als, S, r, m) ==
  IF S = {} THEN 0
  ELSE LET o == CHOOSE x \in S : TRUE
       IN SumQty({a \in als : a.run_id = r /\ a.order_id = o})
            * QtyPerUnit(ords[o].product_id, m)
          + Reserved(ords, als, S \ {o}, r, m)

\* the orders of S that the pass reaches before order oid
EarlierIn(orders_to_plan, S, oid) ==
  {x \in S : \E i, j \in 1..Len(orders_to_plan) :
               orders_to_plan[i] = x /\ orders_to_plan[j] = oid /\ i < j}

\* C38 (per-pass reservation): in a plan() pass, for every material the
\* quantity reserved by the orders the pass allocates (allocated quantity x
\* quantity per unit, over BOM entries with a positive quantity per unit) is
\* at most the stock snapshot of the pass; and the reservations of earlier
\* passes are not counted: each order the pass plans gets the least of its
\* quantity, its capacity and the inventory limit left by the orders planned
\* before it in this pass alone.
C38_PassReservation ==
  [][lastOp' = "plan" =>
       LET rc == get_or_create_plan_run(runs, clock)
           r == rc.run_id
           planned == PlannedNow(rc)
           orders_to_plan == PassInput(Db, rc).orders_to_plan
       IN /\ \A m \in Materials :
               Reserved(orders, allocs', planned, r, m) <= StockGet(stock_by_material, m)
          /\ \A oid \in planned :
               LET own == [m \in Materials |->
                             Reserved(orders, allocs',
                                      EarlierIn(orders_to_plan, planned, oid), r, m)]
               IN SumQty({a \in allocs' : a.run_id = r /\ a.order_id = oid})
                    = Min2(orders[oid].quantity,
                           Min2(CapacityFloor(orders[oid]),
                                InventoryLimit(orders[oid].product_id, own)))]_vars

\* after a second pass the allocations of the run reserve more of a material
\* than the stock holds, each pass having stayed within the snapshot
C38_Witness ==
  /\ lastOp = "plan"
  /\ \E r \in runs : \E m \in DOMAIN DBStock :
       /\ Reserved(orders, allocs, DOMAIN orders, r, m) > DBStock[m]
       /\ \A o \in DOMAIN orders :
            SumQty({a \in allocs : a.run_id = r /\ a.order_id = o})
              * QtyPerUnit(orders[o].product_id, m) <= DBStock[m]

(***************************************************************************)
(* Properties of the purchase-order identifiers                            *)
(***************************************************************************)
\* C39 (po_id uniqueness): in every state reached by placements, expedites,
\* delays, deliveries and consumption, the PurchaseOrders a replenishment
\* sweep would add, called on its own or at the end of a tick, carry po_ids
\* that no stored PurchaseOrder has, also when a material's PO was delivered
\* and a new shortfall of the material arises on the same day.
C39_PoIdUnique ==
  /\ ~PkConflict(pos, check_and_place_purchase_orders(orders, bom_loaded,
                        initial_inventory_by_material, inventory_state, pos, today))
  /\ \A produced \in [Lines -> ProdChoices] : ~TickRaises(produced)

(***************************************************************************)
(* Properties of the agent decision log                                    *)
(***************************************************************************)
\* C40 (bounded decision log): after any sequence of logged decisions and
\* logged errors the in-memory decision log holds at most MAX_LOG_SIZE
\* entries.
C40_LogBounded == Len(decision_log) <= MAX_LOG_SIZE

=============================================================================
